---------------------------- MODULE Spec2Model ----------------------------
(***************************************************************************)
(* Batch extraction pipeline of alibaba-crawler:                           *)
(*   SimpleBatch1688   (src/alibaba-crawler/simple_batch_1688.py)          *)
(*   Batch1688Crawler  (src/alibaba-crawler/batch_1688.py)                 *)
(* The two classes share the orchestration (process_all_urls /             *)
(* process_multiple_urls, extract_single_product, wait_and_handle_captcha, *)
(* save_single_product, save_batch_results) and differ in the extractors.  *)
(* The variable impl says which class runs.                                *)
(*                                                                         *)
(* Environment.  Every browser call may raise (WebDriverException); the    *)
(* operator prompt input() may return (acknowledgment) or raise            *)
(* (EOFError / KeyboardInterrupt: the operator gives up); file writes may  *)
(* raise OSError.  print, time.sleep and random never raise, so they are   *)
(* not steps of the model, except the inter-item sleep, which is a step    *)
(* because its position is observable.  Timestamps and alt/class texts of  *)
(* images are left out of the records: nothing branches on them.           *)
(*                                                                         *)
(* Specifications.                                                         *)
(*   Spec         one batch run: process_all_urls / process_multiple_urls  *)
(*   SessionSpec  main around the batch run, at the level of file names:   *)
(*                the writes of the run, the image download, close and the *)
(*                exit status, for sessions on the same batch              *)
(*   ReadSpec     reading input.txt                                        *)
(*   OutputFaultSpec  the batch run of Spec when a print of the loop body  *)
(*                may raise                                                *)
(*   CallSpec     extract_price, extract_specifications and extract_images *)
(*                called on their own, on texts, rows and elements         *)
(*   ScrollSpec   scroll_to_load_images called on its own, under weak      *)
(*                fairness of its steps                                    *)
(* Each specification keeps the variables of the others at rest.           *)
(***************************************************************************)
EXTENDS Integers, Sequences, FiniteSets, TLC

\* Python's None: for a text value, for a URL and for a product record.
None == "None"
NoUrl == [id |-> "None"]
NoData == [index |-> 0]

\* ------------------------------------------------------------------ bounds
\* Largest number of valid targets in input.txt that is explored.
MaxTargets == 3

\* ------------------------------------------------------------- the classes
Impls == {"SimpleBatch1688", "Batch1688Crawler"}

\* captcha_keywords of wait_and_handle_captcha, in list order.
captcha_keywords(im) ==
    IF im = "SimpleBatch1688"
    THEN <<"yanzhengma", "captcha", "huadong", "dianji", "tuodong">>
    ELSE <<"yanzhengma", "captcha", "huadong", "dianji", "tuodong", "security">>

\* ---------------------------------------------------------------- helpers
Range(s) == {s[i] : i \in 1..Len(s)}

RECURSIVE SeqConcat(_)
SeqConcat(ss) == IF ss = <<>> THEN <<>> ELSE Head(ss) \o SeqConcat(Tail(ss))

\* First n elements (Python s[:n]).
Take(s, n) == SubSeq(s, 1, IF Len(s) < n THEN Len(s) ELSE n)

\* ------------------------------------------------------------------- URLs
(* A URL string is represented by what the code asks of it:                *)
(*   id      the exact string (equality of URLs is equality of ids)        *)
(*   scheme  "https" | "http" | "other"      (startswith tests)            *)
(*   ext     "jpg"  one of .jpg .jpeg .png .webp, in lower case            *)
(*           "JPG"  one of them, in upper case only                        *)
(*           "gif" | "bmp" | "none"                                        *)
(*   alicdn  'alicdn.com' occurs;  cbu01: 'cbu01.alicdn.com' occurs        *)
(*   excl    "both"    a keyword of both exclusion lists occurs (icon ...) *)
(*           "product" a keyword of is_product_image's list only (banner)  *)
(*           "none"                                                        *)
(*   hires   '_b.jpg', '_large' or '_big' occurs                           *)
(*   dim     '800', '600' or '400' occurs                                  *)
(*   long    len(url) >= 20                                                *)
(***************************************************************************)
MkUrl(id, scheme, ext, alicdn, cbu01, excl, hires, dim, long) ==
    [id |-> id, scheme |-> scheme, ext |-> ext, alicdn |-> alicdn,
     cbu01 |-> cbu01, excl |-> excl, hires |-> hires, dim |-> dim,
     long |-> long]

\* https://cbu01.alicdn.com/img/ibank/O1CN01_b.jpg
U_main == MkUrl("main", "https", "jpg", TRUE, TRUE, "none", TRUE, FALSE, TRUE)
\* https://img.alicdn.com/imgextra/i4/600x600.png
U_600 == MkUrl("600", "https", "jpg", TRUE, FALSE, "none", FALSE, TRUE, TRUE)
\* https://img.alicdn.com/tps/icon-cart.png
U_icon == MkUrl("icon", "https", "jpg", TRUE, FALSE, "both", FALSE, FALSE, TRUE)
\* https://img.alicdn.com/tfs/TB1banner.jpg
U_banner == MkUrl("banner", "https", "jpg", TRUE, FALSE, "product", FALSE, FALSE, TRUE)
\* http://example.com/pic/photo.gif
U_gif == MkUrl("gif", "http", "gif", FALSE, FALSE, "none", FALSE, FALSE, TRUE)
\* https://img.alicdn.com/lazy/detail_01.JPG
U_lazy == MkUrl("lazy", "https", "JPG", TRUE, FALSE, "none", FALSE, FALSE, TRUE)

StartsHttp(u) == u.scheme \in {"https", "http"}
\* any(ext in url.lower() for ext in ['.jpg', '.jpeg', '.png', '.webp'])
HasExt4Lower(u) == u.ext \in {"jpg", "JPG"}
\* the same test without lower(): Batch1688Crawler.extract_images
HasExt4Raw(u) == u.ext = "jpg"
\* ... ['.jpg', '.jpeg', '.png', '.webp', '.gif']
HasExt5Lower(u) == u.ext \in {"jpg", "JPG", "gif"}
\* ... ['.jpg', '.jpeg', '.png', '.webp', '.gif', '.bmp']
HasExt6Lower(u) == u.ext \in {"jpg", "JPG", "gif", "bmp"}

\* --------------------------------------------------------- <img> elements
AttrNames == {"src", "data-src", "data-original", "data-lazy", "data-img", "data-url"}

\* An <img> element: its URL-bearing attributes (NoUrl when absent) and the
\* declared width and height (0 when absent).
MkImg(src, orig, w, h) ==
    [attr |-> [a \in AttrNames |->
                 IF a = "src" THEN src ELSE IF a = "data-original" THEN orig ELSE NoUrl],
     width |-> w, height |-> h]

E_main == MkImg(U_main, NoUrl, 300, 300)
\* a thumbnail that carries the same src as the main picture
E_thumb == MkImg(U_main, NoUrl, 60, 60)
E_600 == MkImg(U_600, NoUrl, 0, 0)
E_icon == MkImg(U_icon, NoUrl, 16, 16)
\* lazily loaded: placeholder in src, picture in data-original
E_lazy == MkImg(U_gif, U_lazy, 0, 0)
E_banner == MkImg(U_banner, NoUrl, 0, 0)

\* ------------------------------------------------ SimpleBatch1688 images
\* SimpleBatch1688.is_product_image(img_url, img_element)
is_product_image(u, img) ==
    IF u.excl # "none" THEN FALSE
    ELSE IF img.width > 0 /\ img.height > 0 /\ (img.width < 50 \/ img.height < 50)
    THEN FALSE
    ELSE IF img.width > 0 /\ img.height > 0 /\ img.width * img.height < 2500
    THEN FALSE
    ELSE IF u.alicdn THEN TRUE
    ELSE HasExt4Lower(u)

\* SimpleBatch1688.is_valid_product_image_url(url)
is_valid_product_image_url(u) ==
    IF ~u.long THEN FALSE
    ELSE IF u.scheme # "https" THEN FALSE
    ELSE IF ~(HasExt5Lower(u) \/ u.alicdn) THEN FALSE
    ELSE u.excl # "both"

\* The acceptance tests of the three attribute loops.
\*   "best": get_best_image_url; "tag": step 1 of SimpleBatch1688.extract_images;
\*   "batch": Batch1688Crawler.extract_images
AcceptUrl(test, u) ==
    IF test = "best" THEN u.hires \/ HasExt5Lower(u) \/ u.alicdn
    ELSE IF test = "tag" THEN HasExt6Lower(u) \/ u.alicdn
    ELSE HasExt4Raw(u)

\* First attribute of the priority list whose value starts with 'http' and
\* passes the test; NoUrl when there is none.
RECURSIVE FirstUrl(_, _, _)
FirstUrl(img, attrs, test) ==
    IF attrs = <<>> THEN NoUrl
    ELSE LET u == img.attr[Head(attrs)]
         IN  IF u # NoUrl /\ StartsHttp(u) /\ AcceptUrl(test, u) THEN u
             ELSE FirstUrl(img, Tail(attrs), test)

\* SimpleBatch1688.get_best_image_url(img_element)
get_best_image_url(img) ==
    FirstUrl(img,
             <<"data-original", "data-src", "data-lazy", "src", "data-img", "data-url">>,
             "best")

\* The attribute loop of step 1 of SimpleBatch1688.extract_images.
TagUrl(img) ==
    FirstUrl(img,
             <<"src", "data-src", "data-original", "data-lazy", "data-img", "data-url">>,
             "tag")

MkCandidate(u, w, h, source) ==
    [url |-> u, width |-> w, height |-> h, source |-> source]

\* get_image_priority of SimpleBatch1688.sort_images_by_quality
get_image_priority(c) ==
      (IF c.url.hires THEN 100 ELSE 0)
    + (IF c.url.cbu01 THEN 50 ELSE 0)
    + (IF c.url.dim THEN 30 ELSE 0)
    + (IF c.source = "img_tag" THEN 20 ELSE 0)
    + (IF c.width > 200 /\ c.height > 200 THEN 40
       ELSE IF c.width > 100 /\ c.height > 100 THEN 20 ELSE 0)

\* Mutant of InsertByPriority: a candidate is put before the candidates of
\* the same priority (the sort is descending but not stable).
RECURSIVE InsertByPriority_TiesFirst(_, _)
InsertByPriority_TiesFirst(sorted, c) ==
    IF sorted = <<>> THEN <<c>>
    ELSE IF get_image_priority(Head(sorted)) > get_image_priority(c)
         THEN <<Head(sorted)>> \o InsertByPriority_TiesFirst(Tail(sorted), c)
         ELSE <<c>> \o sorted

\* sorted(images, key=get_image_priority, reverse=True): stable, descending.
RECURSIVE InsertByPriority(_, _)
InsertByPriority(sorted, c) ==
    IF sorted = <<>> THEN <<c>>
    ELSE IF get_image_priority(Head(sorted)) >= get_image_priority(c)
         THEN <<Head(sorted)>> \o InsertByPriority(Tail(sorted), c)
         ELSE <<c>> \o sorted

RECURSIVE sort_images_by_quality(_)
sort_images_by_quality(images) ==
    IF images = <<>> THEN <<>>
    ELSE InsertByPriority(sort_images_by_quality(SubSeq(images, 1, Len(images) - 1)),
                          images[Len(images)])

SeenUrls(images) == {images[i].url.id : i \in 1..Len(images)}

\* Step 1: every <img> of the page, source 'img_tag'.
RECURSIVE ImgTagStep(_, _)
ImgTagStep(images, imgs) ==
    IF imgs = <<>> THEN images
    ELSE LET img == Head(imgs)
             u == TagUrl(img)
         IN  IF u # NoUrl /\ u.id \notin SeenUrls(images) /\ is_product_image(u, img)
             THEN ImgTagStep(Append(images, MkCandidate(u, img.width, img.height, "img_tag")),
                             Tail(imgs))
             ELSE ImgTagStep(images, Tail(imgs))

\* Step 2: the regex matches of the page source, source 'regex_extract'.
RECURSIVE RegexStep(_, _)
RegexStep(images, matches) ==
    IF matches = <<>> THEN images
    ELSE LET u == Head(matches)
         IN  IF u.id \notin SeenUrls(images) /\ is_valid_product_image_url(u)
             THEN RegexStep(Append(images, MkCandidate(u, 0, 0, "regex_extract")),
                            Tail(matches))
             ELSE RegexStep(images, Tail(matches))

\* Step 3: the <img> elements of the gallery containers; each entry of found
\* is [source |-> 'container_<selector>', img |-> the element].
RECURSIVE ContainerStep(_, _)
ContainerStep(images, found) ==
    IF found = <<>> THEN images
    ELSE LET img == Head(found).img
             u == get_best_image_url(img)
         IN  IF u # NoUrl /\ u.id \notin SeenUrls(images)
             THEN ContainerStep(
                      Append(images, MkCandidate(u, img.width, img.height,
                                                 Head(found).source)),
                      Tail(found))
             ELSE ContainerStep(images, Tail(found))

\* Step 4: the <img> elements after scroll_to_load_images, source 'lazy_load'.
RECURSIVE LazyStep(_, _)
LazyStep(images, imgs) ==
    IF imgs = <<>> THEN images
    ELSE LET img == Head(imgs)
             u == get_best_image_url(img)
         IN  IF u # NoUrl /\ u.id \notin SeenUrls(images) /\ is_product_image(u, img)
             THEN LazyStep(Append(images, MkCandidate(u, img.width, img.height, "lazy_load")),
                           Tail(imgs))
             ELSE LazyStep(images, Tail(imgs))

\* Mutant of DiscoveredImages: the rescan of the <img> elements comes first.
DiscoveredImages_RescanFirst(c) ==
    ContainerStep(RegexStep(ImgTagStep(LazyStep(<<>>, c.lazyImgs), c.imgs), c.srcMatches),
                  c.containerImgs)

\* The list images of SimpleBatch1688.extract_images after its four steps, in
\* the order of discovery.
DiscoveredImages(c) ==
    LazyStep(ContainerStep(RegexStep(ImgTagStep(<<>>, c.imgs), c.srcMatches),
                           c.containerImgs),
             c.lazyImgs)

\* SimpleBatch1688.extract_images on page content c; imgFault: the first
\* find_elements(By.TAG_NAME, "img") raises, which the outer try turns into [].
SimpleExtractImages(c, imgFault) ==
    IF imgFault THEN <<>> ELSE sort_images_by_quality(DiscoveredImages(c))

\* ----------------------------------------------- Batch1688Crawler images
MaxBatchImages == 8

BatchTagUrl(img) ==
    FirstUrl(img, <<"src", "data-src", "data-original", "data-lazy">>, "batch")

\* The loop of Batch1688Crawler.extract_images: no seen-set, at most 8.
RECURSIVE BatchImgLoop(_, _)
BatchImgLoop(images, imgs) ==
    IF imgs = <<>> THEN images
    ELSE LET img == Head(imgs)
             u == BatchTagUrl(img)
         IN  IF u = NoUrl THEN BatchImgLoop(images, Tail(imgs))
             ELSE LET more == Append(images, [url |-> u, width |-> img.width,
                                              height |-> img.height])
                  IN  IF Len(more) >= MaxBatchImages THEN more
                      ELSE BatchImgLoop(more, Tail(imgs))

BatchExtractImages(c, imgFault) ==
    IF imgFault THEN <<>> ELSE BatchImgLoop(<<>>, c.imgs)

\* extract_images of the running class.
extract_images(im, c, imgFault) ==
    IF im = "SimpleBatch1688" THEN SimpleExtractImages(c, imgFault)
    ELSE BatchExtractImages(c, imgFault)

\* ------------------------------------------------------------ page content
(* What the extractors can find on a page:                                 *)
(*   titleSel     text of the first title selector whose text is longer    *)
(*                than 3 characters (None: no selector qualifies)          *)
(*   pageTitle    driver.title ("" when empty)                             *)
(*   selPrices    texts of the price-selector elements that carry a        *)
(*                currency marker or a dot, in query order                 *)
(*   rePrices     re.findall matches of the price patterns in the body     *)
(*   supplier     text of the first supplier selector longer than 2        *)
(*   specRows     <<key, value>> of the table rows with >= 2 non-empty     *)
(*                cells, in document order                                 *)
(*   moq          the digits after the first MOQ label (None: no match)    *)
(*   description  text of the first description selector longer than 10    *)
(*   phones       re.findall matches of the phone pattern in the body      *)
(*   imgs         the <img> elements; srcMatches: the regex matches of the *)
(*                page source; containerImgs: the <img> of the gallery     *)
(*                containers; lazyImgs: the <img> elements after scrolling *)
(*   hasBody      the document has a <body> element                        *)
(***************************************************************************)
EmptyContent ==
    [titleSel |-> None, pageTitle |-> "", selPrices |-> <<>>, rePrices |-> <<>>,
     supplier |-> None, specRows |-> <<>>, moq |-> None, description |-> None,
     phones |-> <<>>, imgs |-> <<>>, srcMatches |-> <<>>, containerImgs |-> <<>>,
     lazyImgs |-> <<>>, hasBody |-> TRUE]

\* A document without <body> (an XML or SVG document served by the target URL).
NoBodyContent == [EmptyContent EXCEPT !.hasBody = FALSE]

\* A product detail page; its pictures are not met in the order of their
\* priority, and two of them have the same priority.
ProductContent ==
    [titleSel |-> "Widget 3000", pageTitle |-> "Widget 3000 - 1688.com",
     selPrices |-> <<"Y199.00">>, rePrices |-> <<"Y199.00", "12.50yuan">>,
     supplier |-> "Acme Ltd",
     specRows |-> <<<<"color", "red">>, <<"color", "blue">>, <<"material", "steel">>>>,
     moq |-> "100", description |-> "A long description",
     phones |-> <<"13800000000">>,
     imgs |-> <<E_icon, E_600, E_main>>,
     srcMatches |-> <<U_main, U_banner>>,
     containerImgs |-> <<[source |-> "container_.offer-img", img |-> E_banner],
                         [source |-> "container_.offer-img", img |-> E_lazy]>>,
     lazyImgs |-> <<E_icon, E_600, E_main, E_lazy>>,
     hasBody |-> TRUE]

\* A page of which only a gallery is recognised: the thumbnail and the main
\* picture carry the same src.
GalleryContent ==
    [EmptyContent EXCEPT !.pageTitle = "Widget 3000",
                         !.imgs = <<E_main, E_thumb>>,
                         !.lazyImgs = <<E_main, E_thumb>>]

PageContents == {EmptyContent, NoBodyContent, ProductContent, GalleryContent}

\* "1688" in page_title
HasBrand(t) == t \in {"Widget 3000 - 1688.com"}

\* --------------------------------------------------------- field extractors
(* fault is what the browser does during the extraction of one target:     *)
(*   "none"         every call answers                                     *)
(*   "current_url"  driver.current_url raises                              *)
(*   "query"        every find_element / find_elements / title call raises *)
(*                  a WebDriverException (the window has been closed)      *)
(***************************************************************************)
ExtractFaults == {"none", "current_url", "query"}

\* The body-text lookup find_element(By.TAG_NAME, "body").text raises.
BodyRaises(c, fault) == fault = "query" \/ ~c.hasBody

\* extract_title: the selectors in order, then the page title unless it
\* carries the brand token.
extract_title(c, fault) ==
    IF fault # "query" /\ c.titleSel # None THEN c.titleSel
    ELSE IF fault # "query" /\ c.pageTitle # "" /\ ~HasBrand(c.pageTitle) THEN c.pageTitle
    ELSE None

\* The texts gathered by extract_price before they are deduplicated.
PriceTexts(c, fault) ==
    (IF fault = "query" THEN <<>> ELSE c.selPrices)
    \o (IF BodyRaises(c, fault) THEN <<>> ELSE c.rePrices)

\* list(set(xs))[:3]: one value per order in which the set may be listed.
\* An empty sequence stands for "nothing found".
DedupCap3(xs) ==
    LET S == Range(xs)
        n == IF Cardinality(S) < 3 THEN Cardinality(S) ELSE 3
    IN  {p \in [1..n -> S] : \A i, j \in 1..n : i # j => p[i] # p[j]}

\* extract_price: the possible return values; <<>> stands for None (the code
\* never returns an empty list).
extract_price(c, fault) == DedupCap3(PriceTexts(c, fault))

\* extract_supplier
extract_supplier(c, fault) == IF fault = "query" THEN None ELSE c.supplier

\* Mutant of SpecsOf: the first row of a key is kept.
SpecsOf_FirstWins(rows) ==
    [k \in {rows[i][1] : i \in DOMAIN rows} |->
        rows[CHOOSE i \in DOMAIN rows :
                 rows[i][1] = k /\ \A j \in 1..(i - 1) : rows[j][1] # k][2]]

\* extract_specifications: specs[key] = value row after row.
RECURSIVE SpecsOf(_)
SpecsOf(rows) ==
    IF rows = <<>> THEN <<>>
    ELSE LET last == rows[Len(rows)]
         IN  (last[1] :> last[2]) @@ SpecsOf(SubSeq(rows, 1, Len(rows) - 1))

extract_specifications(c, fault) ==
    IF fault = "query" THEN <<>> ELSE SpecsOf(c.specRows)

\* extract_moq
extract_moq(c, fault) == IF BodyRaises(c, fault) THEN None ELSE c.moq

\* Batch1688Crawler.extract_description
extract_description(c, fault) == IF fault = "query" THEN None ELSE c.description

\* Batch1688Crawler.extract_contact_info: the possible phone lists; <<>>
\* stands for the empty dict.
extract_contact_info(c, fault) == DedupCap3(c.phones)

\* Whether building the record raises an exception that no extractor catches:
\* driver.current_url in both classes; in Batch1688Crawler also the body-text
\* lookups of extract_price, extract_moq and extract_contact_info, which are
\* outside any try.
ExtractionEscapes(im, c, fault) ==
    \/ fault = "current_url"
    \/ im = "Batch1688Crawler" /\ BodyRaises(c, fault)

\* Whether some call raises while the record is built (caught or not):
\* find_element raises NoSuchElementException for a selector without a match.
ExtractionRaises(c, fault) ==
    \/ fault # "none"
    \/ ~c.hasBody
    \/ c.titleSel = None
    \/ c.supplier = None

\* The records the extraction can return for target index on page pg.
ProductInfos(im, idx, pg, fault) ==
    LET c == pg.content
        base == [index |-> idx, url |-> pg.url,
                 title |-> extract_title(c, fault),
                 images |-> extract_images(im, c, fault = "query"),
                 supplier |-> extract_supplier(c, fault),
                 specifications |-> extract_specifications(c, fault),
                 moq |-> extract_moq(c, fault)]
    IN  IF im = "SimpleBatch1688"
        THEN {base @@ [price |-> p] : p \in extract_price(c, fault)}
        ELSE {base @@ [price |-> p, description |-> extract_description(c, fault),
                       contact_info |-> ph] :
                  p \in extract_price(c, fault), ph \in extract_contact_info(c, fault)}

\* One row of the summary CSV written by save_batch_results.
SummaryRow(product) ==
    [index |-> product.index, url |-> product.url,
     title |-> IF product.title = None THEN "" ELSE product.title,
     price |-> Take(product.price, 2),
     supplier |-> IF product.supplier = None THEN "" ELSE product.supplier,
     images |-> Len(product.images),
     specifications |-> Cardinality(DOMAIN product.specifications)]

SummaryRows(products) == [i \in 1..Len(products) |-> SummaryRow(products[i])]


\* ------------------------------------------------------------- file names
(* A file name is represented by the values formatted into it: directory,  *)
(* stem, session timestamp (0: the name carries none), product index,      *)
(* image number (0: none), image source ("-": none) and extension.         *)
(***************************************************************************)
FileName(dir, stem, ts, idx, i, source, ext) ==
    [dir |-> dir, stem |-> stem, ts |-> ts, index |-> idx, i |-> i,
     source |-> source, ext |-> ext]

\* f"data/product_{self.session_timestamp}_{index:03d}.json"
item_filename(ts, idx) == FileName("data", "product", ts, idx, 0, "-", "json")

\* f"batch_results/batch_{self.session_timestamp}.json"
batch_json_filename(ts) == FileName("batch_results", "batch", ts, 0, 0, "-", "json")

\* f"batch_results/batch_summary_{self.session_timestamp}.csv"
batch_csv_filename(ts) == FileName("batch_results", "batch_summary", ts, 0, 0, "-", "csv")

\* SimpleBatch1688.get_image_extension(url, response): the first extension of
\* its list that occurs in the lowered URL; without one, the content type of
\* the response or 'jpg'.
get_image_extension(u) ==
    IF u.ext \in {"jpg", "JPG"} THEN "jpg"
    ELSE IF u.ext \in {"gif", "bmp"} THEN u.ext
    ELSE "jpg"

\* The name download_product_images gives to image number i of the product:
\*   SimpleBatch1688   f"images/product_{product_index:03d}_{i+1:02d}_{source}.{ext}"
\*   Batch1688Crawler  f"images/batch_{self.session_timestamp}_product_{product_index:03d}_{i+1}.{ext}"
\* In Batch1688Crawler the extension is the text after the last dot of the
\* URL when it is one of jpg, jpeg, png, webp, and 'jpg' otherwise.
image_filename(im, ts, idx, i, img) ==
    IF im = "SimpleBatch1688"
    THEN FileName("images", "product", 0, idx, i, img.source, get_image_extension(img.url))
    ELSE FileName("images", "batch", ts, idx, i, "-", "jpg")

\* open(filename, 'w') and the write, by the session ts: the file is created
\* or replaced.
WriteFile(d, name, ts) ==
    {f \in d : f.name # name} \cup {[name |-> name, session |-> ts]}

\* ------------------------------------------------------------------ state
VARIABLES
    impl,               \* the class that runs
    total_urls,         \* len(urls): the valid targets read from input.txt
    pc,                 \* the position of the batch run
    index,              \* the loop variable of the batch loop (1-based)
    page,               \* what the browser shows: [url, kw, content]
    gate,               \* the frame of wait_and_handle_captcha
    product_data,       \* what extract_single_product returned (NoData: None)
    all_products_data,  \* self.all_products_data, the results list
    successful_count,   \* the local successful_count
    failed_urls,        \* the local failed_urls (the target indexes)
    data_files,         \* data/product_<timestamp>_<index>.json, by index
    batch_json,         \* batch_results/batch_<timestamp>.json (<<>>: absent)
    batch_csv,          \* batch_results/batch_summary_<timestamp>.csv
    h                   \* history of the run, read by the properties only:
                        \*   navCount[k]  driver.get calls issued for target k
                        \*   navFailed    targets whose driver.get raised
                        \*   writeFailed  targets whose per-item write raised
                        \*   delays       targets followed by the inter-item sleep
                        \*   needGate     a navigation returned and the gate has
                        \*                not been called since
                        \*   itemFault    the browser fault during the extraction
                        \*                of the current target ("-": not extracted)
                        \*   itemExc      "none" | "swallowed" | "escaped": what
                        \*                became of exceptions raised meanwhile
                        \*   abandoned    the operator left the last prompt shown
                        \*                for the current target unanswered
                        \*   simRaised    execute_script raised in human_simulate
                        \*                for the current target
                        \*   batchIo      "-" | "ok" | "json" | "csv": the write
                        \*                of save_batch_results that raised

\* What main does around the batch run, seen at the level of file names:
VARIABLES
    session_timestamp,  \* self.session_timestamp: 1 for the first session, 2 ...
    disk,               \* the files under data/, batch_results/ and images/:
                        \* a set of [name, session], session being the
                        \* timestamp of the session that wrote the file last
    mpc,                \* the position of main: "batch" while the batch run
                        \* of Spec is at work
    cursor,             \* [p, i]: the record and the image the write loops
                        \* of the session are at
    exit_status,        \* the exit status of the process (-1: still running)
    hs                  \* history of the session, read by the properties only:
                        \*   faults     I/O faults that have occurred so far
                        \*   batchIo    as h.batchIo
                        \*   itemLost   indexes whose per-item write raised
                        \*   attempted  <<index, i>> of the images requested
                        \*   failed     <<index, i>> of the images not saved
                        \*   logged     <<index, i>> of the failures printed
                        \*   pending    an exception is propagating in main

\* Reading input.txt:
VARIABLES
    input_txt,          \* the file input.txt: [exists, lines]
    rpc,                \* the position of the reader
    line_num,           \* number of the line read last (enumerate(f, 1))
    urls,               \* the list urls the reader builds and returns
    warned              \* numbers of the lines for which the "not a valid
                        \* 1688 link" message was printed, in print order

\* One call of a function of the crawler on an argument of its own:
VARIABLES
    call,               \* the function called, its arguments and its locals
    ret                 \* what the call returned (NotReturned: still running)

readVars == <<input_txt, rpc, line_num, urls, warned>>

callVars == <<call, ret>>

batchVars == <<impl, total_urls, pc, index, page, gate, product_data, all_products_data,
               successful_count, failed_urls, data_files, batch_json, batch_csv, h>>

sessVars == <<session_timestamp, disk, mpc, cursor, exit_status, hs>>

vars == <<batchVars, sessVars, readVars, callVars>>

NoCall == [fn |-> "none"]
NotReturned == [done |-> FALSE]
Returned(v) == [done |-> TRUE, value |-> v]

\* No function is called on its own.
CallIdle ==
    /\ call = NoCall
    /\ ret = NotReturned

\* The reader is not at work.
ReaderIdle ==
    /\ input_txt = [exists |-> FALSE, lines |-> <<>>]
    /\ rpc = "idle"
    /\ line_num = 0
    /\ urls = <<>>
    /\ warned = <<>>

NoCursor == [p |-> 0, i |-> 0]

SessionHistory ==
    [faults |-> 0, batchIo |-> "-", itemLost |-> {}, attempted |-> {},
     failed |-> {}, logged |-> {}, pending |-> FALSE]

\* A file that does not exist / a file holding content.
NoFile == [exists |-> FALSE]
File(content) == [exists |-> TRUE, content |-> content]

\* The browser right after setup_driver.
BlankPage == [url |-> -1, kw |-> {}, content |-> EmptyContent]

\* The sets of captcha keywords a page may show: none, one, two (the first and
\* the last of the shorter list), and the keyword only Batch1688Crawler knows.
IndicatorSets(im) ==
    {{}, {"captcha"}, {"yanzhengma", "tuodong"}}
    \cup (IF im = "Batch1688Crawler" THEN {{"security"}} ELSE {})

\* What https://www.1688.com may show (url 0); nothing is extracted from it.
HomePages(im) == {[url |-> 0, kw |-> K, content |-> EmptyContent] : K \in IndicatorSets(im)}

\* What the browser may show after driver.get(urls[k]).
TargetPages(im, k) ==
    {[url |-> k, kw |-> K, content |-> c] : K \in IndicatorSets(im), c \in PageContents}

GateIdle ==
    [caller |-> "none", pos |-> 0, indicator |-> FALSE, prompted |-> FALSE,
     acked |-> FALSE, aborted |-> FALSE, raised |-> FALSE, result |-> "none"]

Init ==
    /\ impl \in Impls
    /\ total_urls \in 1..MaxTargets
    /\ pc = "start"
    /\ index = 0
    /\ page = BlankPage
    /\ gate = GateIdle
    /\ product_data = NoData
    /\ all_products_data = <<>>
    /\ successful_count = 0
    /\ failed_urls = <<>>
    /\ data_files = [k \in 1..total_urls |-> NoFile]
    /\ batch_json = NoFile
    /\ batch_csv = NoFile
    /\ h = [navCount |-> [k \in 1..total_urls |-> 0],
            navFailed |-> {}, writeFailed |-> {}, delays |-> {},
            needGate |-> FALSE, itemFault |-> "-", itemExc |-> "none",
            abandoned |-> FALSE, simRaised |-> FALSE, batchIo |-> "-"]
    /\ session_timestamp = 1
    /\ disk = {}
    /\ mpc = "batch"
    /\ cursor = NoCursor
    /\ exit_status = -1
    /\ hs = SessionHistory
    /\ ReaderIdle
    /\ CallIdle

\* ---------------------------------------------------- the Anti-Bot Gate
\* Where wait_and_handle_captcha returns to.
GateReturnPc == IF gate.caller = "warmup" THEN "loop" ELSE "item_sim"

\* The call self.wait_and_handle_captcha() of process_all_urls (warm-up) and
\* of extract_single_product.
CallGate ==
    /\ pc \in {"warm_gate", "item_gate"}
    /\ gate' = [GateIdle EXCEPT !.caller = IF pc = "warm_gate" THEN "warmup" ELSE "item",
                                !.pos = 1,
                                !.indicator = (page.kw # {})]
    /\ pc' = "gate_scan"
    /\ h' = [h EXCEPT !.needGate = FALSE]
    /\ UNCHANGED <<impl, total_urls, index, page, product_data, all_products_data,
                   successful_count, failed_urls, data_files, batch_json, batch_csv>>
    /\ UNCHANGED sessVars
    /\ UNCHANGED <<readVars, callVars>>

\* One turn of the keyword loop: find_elements for the keyword raises (the
\* bare except swallows it), finds nothing, or finds an element, and then the
\* prompt is shown and input() blocks.
GateQuery ==
    /\ pc = "gate_scan"
    /\ gate.pos <= Len(captcha_keywords(impl))
    /\ \E raises \in BOOLEAN :
          IF raises
          THEN /\ gate' = [gate EXCEPT !.pos = @ + 1, !.raised = TRUE]
               /\ pc' = pc
          ELSE IF captcha_keywords(impl)[gate.pos] \in page.kw
          THEN /\ gate' = [gate EXCEPT !.prompted = TRUE]
               /\ pc' = "gate_wait"
          ELSE /\ gate' = [gate EXCEPT !.pos = @ + 1]
               /\ pc' = pc
    /\ UNCHANGED <<impl, total_urls, index, page, product_data, all_products_data,
                   successful_count, failed_urls, data_files, batch_json, batch_csv, h>>
    /\ UNCHANGED sessVars
    /\ UNCHANGED <<readVars, callVars>>

\* The keyword loop is exhausted: return False.
GateReturnFalse ==
    /\ pc = "gate_scan"
    /\ gate.pos > Len(captcha_keywords(impl))
    /\ gate' = [gate EXCEPT !.result = "false"]
    /\ pc' = GateReturnPc
    /\ UNCHANGED <<impl, total_urls, index, page, product_data, all_products_data,
                   successful_count, failed_urls, data_files, batch_json, batch_csv, h>>
    /\ UNCHANGED sessVars
    /\ UNCHANGED <<readVars, callVars>>

\* The operator presses Enter: input() returns and the gate returns True.
\* The operator may or may not have solved the challenge before.
OperatorAck ==
    /\ pc = "gate_wait"
    /\ \E solved \in BOOLEAN : page' = IF solved THEN [page EXCEPT !.kw = {}] ELSE page
    /\ gate' = [gate EXCEPT !.acked = TRUE, !.result = "true"]
    /\ pc' = GateReturnPc
    /\ h' = [h EXCEPT !.abandoned = FALSE]
    /\ UNCHANGED <<impl, total_urls, index, product_data, all_products_data,
                   successful_count, failed_urls, data_files, batch_json, batch_csv>>
    /\ UNCHANGED sessVars
    /\ UNCHANGED <<readVars, callVars>>

\* The operator gives up: input() raises EOFError or KeyboardInterrupt inside
\* the try, the bare except swallows it and the keyword loop goes on.
OperatorAbort ==
    /\ pc = "gate_wait"
    /\ gate' = [gate EXCEPT !.pos = @ + 1, !.aborted = TRUE]
    /\ pc' = "gate_scan"
    /\ h' = [h EXCEPT !.abandoned = (gate.caller = "item")]
    /\ UNCHANGED <<impl, total_urls, index, page, product_data, all_products_data,
                   successful_count, failed_urls, data_files, batch_json, batch_csv>>
    /\ UNCHANGED sessVars
    /\ UNCHANGED <<readVars, callVars>>

\* ------------------------------------------------------- the batch run
\* Mutant of WarmupNavigate: a raise of the warm-up navigation is caught and
\* the run goes on with the targets.
WarmupNavigate_ErrorCaught ==
    /\ pc = "start"
    /\ \/ /\ page' \in HomePages(impl)
          /\ pc' = "warm_gate"
          /\ h' = [h EXCEPT !.needGate = TRUE]
       \/ /\ pc' = "loop"
          /\ UNCHANGED <<page, h>>
    /\ UNCHANGED <<impl, total_urls, index, gate, product_data, all_products_data,
                   successful_count, failed_urls, data_files, batch_json, batch_csv>>
    /\ UNCHANGED sessVars
    /\ UNCHANGED <<readVars, callVars>>

\* self.driver.get("https://www.1688.com"): outside any try of the run.
WarmupNavigate ==
    /\ pc = "start"
    /\ \/ /\ page' \in HomePages(impl)
          /\ pc' = "warm_gate"
          /\ h' = [h EXCEPT !.needGate = TRUE]
       \/ /\ pc' = "aborted"
          /\ UNCHANGED <<page, h>>
    /\ UNCHANGED <<impl, total_urls, index, gate, product_data, all_products_data,
                   successful_count, failed_urls, data_files, batch_json, batch_csv>>
    /\ UNCHANGED sessVars
    /\ UNCHANGED <<readVars, callVars>>

\* Mutant of LoopNext: a target that failed is tried once more.
LoopNext_Retry ==
    /\ pc = "loop"
    /\ \/ /\ index >= 1
          /\ index \in Range(failed_urls)
          /\ h.navCount[index] < 2
          /\ pc' = "item_nav"
          /\ h' = [h EXCEPT !.itemFault = "-", !.itemExc = "none", !.abandoned = FALSE,
                         !.simRaised = FALSE]
          /\ UNCHANGED index
       \/ /\ ~(index >= 1 /\ index \in Range(failed_urls) /\ h.navCount[index] < 2)
          /\ index < total_urls
          /\ index' = index + 1
          /\ pc' = "item_nav"
          /\ h' = [h EXCEPT !.itemFault = "-", !.itemExc = "none", !.abandoned = FALSE,
                         !.simRaised = FALSE]
       \/ /\ ~(index >= 1 /\ index \in Range(failed_urls) /\ h.navCount[index] < 2)
          /\ index >= total_urls
          /\ pc' = "summary"
          /\ UNCHANGED <<index, h>>
    /\ gate' = GateIdle
    /\ product_data' = NoData
    /\ UNCHANGED <<impl, total_urls, page, all_products_data, successful_count,
                   failed_urls, data_files, batch_json, batch_csv>>
    /\ UNCHANGED sessVars
    /\ UNCHANGED <<readVars, callVars>>

\* for index, url in enumerate(urls, 1)
LoopNext ==
    /\ pc = "loop"
    /\ \/ /\ index < total_urls
          /\ index' = index + 1
          /\ pc' = "item_nav"
          /\ h' = [h EXCEPT !.itemFault = "-", !.itemExc = "none", !.abandoned = FALSE,
                         !.simRaised = FALSE]
       \/ /\ index >= total_urls
          /\ pc' = "summary"
          /\ UNCHANGED <<index, h>>
    /\ gate' = GateIdle
    /\ product_data' = NoData
    /\ UNCHANGED <<impl, total_urls, page, all_products_data, successful_count,
                   failed_urls, data_files, batch_json, batch_csv>>
    /\ UNCHANGED sessVars
    /\ UNCHANGED <<readVars, callVars>>

\* Mutant of Navigate: a raise of driver.get is ignored and the pipeline goes
\* on with the page the browser still shows.
Navigate_ErrorIgnored ==
    /\ pc = "item_nav"
    /\ \/ /\ page' \in TargetPages(impl, index)
          /\ pc' = "item_gate"
          /\ h' = [h EXCEPT !.navCount[index] = @ + 1, !.needGate = TRUE]
       \/ /\ pc' = "item_gate"
          /\ h' = [h EXCEPT !.navCount[index] = @ + 1, !.navFailed = @ \cup {index}]
          /\ UNCHANGED page
    /\ UNCHANGED <<impl, total_urls, index, gate, product_data, all_products_data,
                   successful_count, failed_urls, data_files, batch_json, batch_csv>>
    /\ UNCHANGED sessVars
    /\ UNCHANGED <<readVars, callVars>>

\* Mutant of Navigate: the captcha check after driver.get(url) is left out.
Navigate_SkipGate ==
    /\ pc = "item_nav"
    /\ \/ /\ page' \in TargetPages(impl, index)
          /\ pc' = "item_sim"
          /\ h' = [h EXCEPT !.navCount[index] = @ + 1, !.needGate = TRUE]
          /\ UNCHANGED product_data
       \/ /\ product_data' = NoData
          /\ pc' = "item_ret"
          /\ h' = [h EXCEPT !.navCount[index] = @ + 1, !.navFailed = @ \cup {index}]
          /\ UNCHANGED page
    /\ UNCHANGED <<impl, total_urls, index, gate, all_products_data, successful_count,
                   failed_urls, data_files, batch_json, batch_csv>>
    /\ UNCHANGED sessVars
    /\ UNCHANGED <<readVars, callVars>>

\* extract_single_product: self.driver.get(url); a raise is caught by the
\* except of extract_single_product, which returns None.
Navigate ==
    /\ pc = "item_nav"
    /\ \/ /\ page' \in TargetPages(impl, index)
          /\ pc' = "item_gate"
          /\ h' = [h EXCEPT !.navCount[index] = @ + 1, !.needGate = TRUE]
          /\ UNCHANGED product_data
       \/ /\ product_data' = NoData
          /\ pc' = "item_ret"
          /\ h' = [h EXCEPT !.navCount[index] = @ + 1, !.navFailed = @ \cup {index}]
          /\ UNCHANGED page
    /\ UNCHANGED <<impl, total_urls, index, gate, all_products_data, successful_count,
                   failed_urls, data_files, batch_json, batch_csv>>
    /\ UNCHANGED sessVars
    /\ UNCHANGED <<readVars, callVars>>

\* extract_single_product: self.human_simulate(); execute_script may raise,
\* human_simulate has no try, the except of extract_single_product returns None.
Simulate ==
    /\ pc = "item_sim"
    /\ \/ /\ pc' = "item_extract"
          /\ UNCHANGED <<product_data, h>>
       \/ /\ product_data' = NoData
          /\ pc' = "item_ret"
          /\ h' = [h EXCEPT !.simRaised = TRUE]
    /\ gate' = GateIdle
    /\ UNCHANGED <<impl, total_urls, index, page, all_products_data, successful_count,
                   failed_urls, data_files, batch_json, batch_csv>>
    /\ UNCHANGED sessVars
    /\ UNCHANGED <<readVars, callVars>>

\* Mutant of Extract: extract_single_product without its try: an exception
\* that escapes the extractors leaves the batch run.
Extract_NoCatch ==
    /\ pc = "item_extract"
    /\ \E fault \in ExtractFaults :
          /\ IF ExtractionEscapes(impl, page.content, fault)
             THEN /\ product_data' = NoData
                  /\ pc' = "aborted"
             ELSE /\ product_data' \in ProductInfos(impl, index, page, fault)
                  /\ pc' = "item_ret"
          /\ h' = [h EXCEPT !.itemFault = fault, !.itemExc =
                       IF ExtractionEscapes(impl, page.content, fault) THEN "escaped"
                       ELSE IF ExtractionRaises(page.content, fault) THEN "swallowed"
                       ELSE "none"]
    /\ UNCHANGED <<impl, total_urls, index, page, gate, all_products_data,
                   successful_count, failed_urls, data_files, batch_json, batch_csv>>
    /\ UNCHANGED sessVars
    /\ UNCHANGED <<readVars, callVars>>

\* extract_single_product: build product_info and return it, or return None
\* when an exception escapes the extractors.
Extract ==
    /\ pc = "item_extract"
    /\ \E fault \in ExtractFaults :
          /\ IF ExtractionEscapes(impl, page.content, fault)
             THEN product_data' = NoData
             ELSE product_data' \in ProductInfos(impl, index, page, fault)
          /\ h' = [h EXCEPT !.itemFault = fault, !.itemExc =
                       IF ExtractionEscapes(impl, page.content, fault) THEN "escaped"
                       ELSE IF ExtractionRaises(page.content, fault) THEN "swallowed"
                       ELSE "none"]
    /\ pc' = "item_ret"
    /\ UNCHANGED <<impl, total_urls, index, page, gate, all_products_data,
                   successful_count, failed_urls, data_files, batch_json, batch_csv>>
    /\ UNCHANGED sessVars
    /\ UNCHANGED <<readVars, callVars>>

\* Mutant of Account: a failed target is not entered in failed_urls.
Account_NoFailureEntry ==
    /\ pc = "item_ret"
    /\ IF product_data # NoData
       THEN /\ all_products_data' = Append(all_products_data, product_data)
            /\ successful_count' = successful_count + 1
            /\ pc' = "save"
            /\ UNCHANGED failed_urls
       ELSE /\ pc' = "delay"
            /\ UNCHANGED <<all_products_data, successful_count, failed_urls>>
    /\ UNCHANGED <<impl, total_urls, index, page, gate, product_data, data_files,
                   batch_json, batch_csv, h>>
    /\ UNCHANGED sessVars
    /\ UNCHANGED <<readVars, callVars>>

\* Mutant of Account: the per-item file is not written when the target
\* completes (the records are only saved with the batch).
Account_DeferSave ==
    /\ pc = "item_ret"
    /\ IF product_data # NoData
       THEN /\ all_products_data' = Append(all_products_data, product_data)
            /\ successful_count' = successful_count + 1
            /\ UNCHANGED failed_urls
       ELSE /\ failed_urls' = Append(failed_urls, index)
            /\ UNCHANGED <<all_products_data, successful_count>>
    /\ pc' = "delay"
    /\ UNCHANGED <<impl, total_urls, index, page, gate, product_data, data_files,
                   batch_json, batch_csv, h>>
    /\ UNCHANGED sessVars
    /\ UNCHANGED <<readVars, callVars>>

\* The branch on product_data in the batch loop.
Account ==
    /\ pc = "item_ret"
    /\ IF product_data # NoData
       THEN /\ all_products_data' = Append(all_products_data, product_data)
            /\ successful_count' = successful_count + 1
            /\ pc' = "save"
            /\ UNCHANGED failed_urls
       ELSE /\ failed_urls' = Append(failed_urls, index)
            /\ pc' = "delay"
            /\ UNCHANGED <<all_products_data, successful_count>>
    /\ UNCHANGED <<impl, total_urls, index, page, gate, product_data, data_files,
                   batch_json, batch_csv, h>>
    /\ UNCHANGED sessVars
    /\ UNCHANGED <<readVars, callVars>>

\* Mutant of SaveSingle: the file is numbered by the position of the record
\* in the results instead of the position of its target.
SaveSingle_NumberedByResult ==
    /\ pc = "save"
    /\ \/ /\ data_files' = [data_files EXCEPT
                                ![Len(all_products_data)] = File(product_data)]
          /\ disk' = WriteFile(disk,
                               item_filename(session_timestamp, Len(all_products_data)),
                               session_timestamp)
          /\ UNCHANGED h
       \/ /\ h' = [h EXCEPT !.writeFailed = @ \cup {index}]
          /\ UNCHANGED <<data_files, disk>>
    /\ pc' = "delay"
    /\ UNCHANGED <<impl, total_urls, index, page, gate, product_data, all_products_data,
                   successful_count, failed_urls, batch_json, batch_csv>>
    /\ UNCHANGED <<session_timestamp, mpc, cursor, exit_status, hs>>
    /\ UNCHANGED <<readVars, callVars>>

\* Mutant of SaveSingle: a record whose file cannot be written is taken out
\* of the results and its target counted as failed.
SaveSingle_FailureDropsRecord ==
    /\ pc = "save"
    /\ \/ /\ data_files' = [data_files EXCEPT ![index] = File(product_data)]
          /\ disk' = WriteFile(disk, item_filename(session_timestamp, index),
                               session_timestamp)
          /\ UNCHANGED <<h, all_products_data, successful_count, failed_urls>>
       \/ /\ h' = [h EXCEPT !.writeFailed = @ \cup {index}]
          /\ all_products_data' = SubSeq(all_products_data, 1, Len(all_products_data) - 1)
          /\ successful_count' = successful_count - 1
          /\ failed_urls' = Append(failed_urls, index)
          /\ UNCHANGED <<data_files, disk>>
    /\ pc' = "delay"
    /\ UNCHANGED <<impl, total_urls, index, page, gate, product_data, batch_json, batch_csv>>
    /\ UNCHANGED <<session_timestamp, mpc, cursor, exit_status, hs>>
    /\ UNCHANGED <<readVars, callVars>>

\* save_single_product(product_data, index): an OSError is caught and logged.
SaveSingle ==
    /\ pc = "save"
    /\ \/ /\ data_files' = [data_files EXCEPT ![index] = File(product_data)]
          /\ disk' = WriteFile(disk, item_filename(session_timestamp, index),
                               session_timestamp)
          /\ UNCHANGED h
       \/ /\ h' = [h EXCEPT !.writeFailed = @ \cup {index}]
          /\ UNCHANGED <<data_files, disk>>
    /\ pc' = "delay"
    /\ UNCHANGED <<impl, total_urls, index, page, gate, product_data, all_products_data,
                   successful_count, failed_urls, batch_json, batch_csv>>
    /\ UNCHANGED <<session_timestamp, mpc, cursor, exit_status, hs>>
    /\ UNCHANGED <<readVars, callVars>>

\* Mutant of Delay: the sleep is only taken after a target that succeeded.
Delay_OnlyAfterSuccess ==
    /\ pc = "delay"
    /\ \/ /\ index < total_urls /\ product_data # NoData
          /\ h' = [h EXCEPT !.delays = @ \cup {index}]
       \/ /\ ~(index < total_urls /\ product_data # NoData)
          /\ UNCHANGED h
    /\ pc' = "loop"
    /\ UNCHANGED <<impl, total_urls, index, page, gate, product_data, all_products_data,
                   successful_count, failed_urls, data_files, batch_json, batch_csv>>
    /\ UNCHANGED sessVars
    /\ UNCHANGED <<readVars, callVars>>

\* if index < total_urls: time.sleep(random.uniform(3, 8))
Delay ==
    /\ pc = "delay"
    /\ \/ /\ index < total_urls
          /\ h' = [h EXCEPT !.delays = @ \cup {index}]
       \/ /\ index >= total_urls
          /\ UNCHANGED h
    /\ pc' = "loop"
    /\ UNCHANGED <<impl, total_urls, index, page, gate, product_data, all_products_data,
                   successful_count, failed_urls, data_files, batch_json, batch_csv>>
    /\ UNCHANGED sessVars
    /\ UNCHANGED <<readVars, callVars>>

\* Mutant of PrintSummary: save_batch_results is called whatever the results.
PrintSummary_AlwaysSaves ==
    /\ pc = "summary"
    /\ pc' = "save_batch"
    /\ UNCHANGED <<impl, total_urls, index, page, gate, product_data, all_products_data,
                   successful_count, failed_urls, data_files, batch_json, batch_csv, h>>
    /\ UNCHANGED sessVars
    /\ UNCHANGED <<readVars, callVars>>

\* print_summary, then: if self.all_products_data: self.save_batch_results()
PrintSummary ==
    /\ pc = "summary"
    /\ \/ /\ all_products_data # <<>>
          /\ pc' = "save_batch"
       \/ /\ all_products_data = <<>>
          /\ pc' = "done"
    /\ UNCHANGED <<impl, total_urls, index, page, gate, product_data, all_products_data,
                   successful_count, failed_urls, data_files, batch_json, batch_csv, h>>
    /\ UNCHANGED sessVars
    /\ UNCHANGED <<readVars, callVars>>

\* save_batch_results: the JSON file, then the CSV file, in one try; an
\* OSError at either is caught and logged.
SaveBatch ==
    /\ pc = "save_batch"
    /\ \/ /\ batch_json' = File(all_products_data)
          /\ batch_csv' = File(SummaryRows(all_products_data))
          /\ disk' = WriteFile(WriteFile(disk, batch_json_filename(session_timestamp),
                                         session_timestamp),
                               batch_csv_filename(session_timestamp), session_timestamp)
          /\ h' = [h EXCEPT !.batchIo = "ok"]
       \/ /\ batch_json' = File(all_products_data)
          /\ disk' = WriteFile(disk, batch_json_filename(session_timestamp),
                               session_timestamp)
          /\ h' = [h EXCEPT !.batchIo = "csv"]
          /\ UNCHANGED batch_csv
       \/ /\ h' = [h EXCEPT !.batchIo = "json"]
          /\ UNCHANGED <<batch_json, batch_csv, disk>>
    /\ pc' = "done"
    /\ UNCHANGED <<impl, total_urls, index, page, gate, product_data, all_products_data,
                   successful_count, failed_urls, data_files>>
    /\ UNCHANGED <<session_timestamp, mpc, cursor, exit_status, hs>>
    /\ UNCHANGED <<readVars, callVars>>

Next ==
    \/ WarmupNavigate
    \/ CallGate
    \/ GateQuery
    \/ GateReturnFalse
    \/ OperatorAck
    \/ OperatorAbort
    \/ LoopNext
    \/ Navigate
    \/ Simulate
    \/ Extract
    \/ Account
    \/ SaveSingle
    \/ Delay
    \/ PrintSummary
    \/ SaveBatch

Spec == Init /\ [][Next]_vars

\* ------------------------------------------- the batch run, output faults
(* The batch run when writing to standard output may fail now and then     *)
(* (print raises an OSError: a full disk behind a redirected stdout, a     *)
(* non-blocking stdout that cannot take the text).  A print of the loop    *)
(* body raises: before the pipeline is called (139-142), after the record  *)
(* has been appended (150), after the failure has been appended (155) or   *)
(* before the sleep (161).  The except of the loop prints and appends      *)
(* (index, url) to failed_urls, and the loop goes on with the next target; *)
(* when the print of the handler raises as well the exception leaves the   *)
(* run.                                                                    *)
(***************************************************************************)
LoopBodyRaises ==
    /\ \/ pc = "item_nav"
       \/ pc = "save"
       \/ pc = "delay" /\ (product_data = NoData \/ index < total_urls)
    /\ \/ /\ failed_urls' = Append(failed_urls, index)
          /\ pc' = "loop"
       \/ /\ pc' = "aborted"
          /\ UNCHANGED failed_urls
    /\ UNCHANGED <<impl, total_urls, index, page, gate, product_data, all_products_data,
                   successful_count, data_files, batch_json, batch_csv, h>>
    /\ UNCHANGED sessVars
    /\ UNCHANGED <<readVars, callVars>>

OutputFaultNext ==
    \/ Next
    \/ LoopBodyRaises

\* The batches explored are one target shorter than those of Spec.
OutputFaultInit == Init /\ total_urls < MaxTargets

OutputFaultSpec == OutputFaultInit /\ [][OutputFaultNext]_vars


\* ------------------------------------------------------------- sessions
(* main around the batch run, for sessions that work on the same batch.    *)
(* The batch is given by the records its targets yield; the navigation and *)
(* the extraction of Spec are not repeated here, the writes of the batch   *)
(* run are: save_single_product for each record, then save_batch_results.  *)
(* Then main asks whether to download the images, downloads them, closes   *)
(* the browser and the process exits; a later session starts with a later  *)
(* timestamp.                                                              *)
(***************************************************************************)
\* Largest number of sessions on the same batch.
MaxSessions == 2
\* Largest number of I/O faults (file writes, image requests) in a behaviour.
MaxIoFaults == 2
\* images_data[:3] of Batch1688Crawler.download_product_images
MaxBatchDownloads == 3

\* A record that target k yields when the browser answers every call.
RecordOf(im, k, content) ==
    CHOOSE r \in ProductInfos(im, k, [url |-> k, kw |-> {}, content |-> content], "none") :
        TRUE

\* The batches explored: no success; one product; a gallery and a product;
\* a record without images before a gallery (target 1 failed).
Batches(im) ==
    {<<>>,
     <<RecordOf(im, 1, ProductContent)>>,
     <<RecordOf(im, 1, GalleryContent), RecordOf(im, 2, ProductContent)>>,
     <<RecordOf(im, 2, EmptyContent), RecordOf(im, 3, GalleryContent)>>}

\* How many images of record r download_product_images requests.
DownloadCount(im, r) ==
    IF im = "SimpleBatch1688" \/ Len(r.images) < MaxBatchDownloads
    THEN Len(r.images)
    ELSE MaxBatchDownloads

\* download_all_images: the first image of the first record from position p
\* on that has images; p = Len(rs) + 1 when there is none.
RECURSIVE SkipToImages(_, _, _)
SkipToImages(im, rs, p) ==
    IF p > Len(rs) THEN [p |-> p, i |-> 0]
    ELSE IF DownloadCount(im, rs[p]) > 0 THEN [p |-> p, i |-> 1]
    ELSE SkipToImages(im, rs, p + 1)

\* The image after the one at c.
NextCursor(im, rs, c) ==
    IF c.i < DownloadCount(im, rs[c.p]) THEN [c EXCEPT !.i = @ + 1]
    ELSE SkipToImages(im, rs, c.p + 1)

SessionInit ==
    /\ impl \in Impls
    /\ total_urls = MaxTargets
    /\ pc = "session"
    /\ index = 0
    /\ page = BlankPage
    /\ gate = GateIdle
    /\ product_data = NoData
    /\ all_products_data \in Batches(impl)
    /\ successful_count = Len(all_products_data)
    /\ failed_urls = <<>>
    /\ data_files = [k \in 1..total_urls |-> NoFile]
    /\ batch_json = NoFile
    /\ batch_csv = NoFile
    /\ h = [navCount |-> [k \in 1..total_urls |-> 0],
            navFailed |-> {}, writeFailed |-> {}, delays |-> {},
            needGate |-> FALSE, itemFault |-> "-", itemExc |-> "none",
            abandoned |-> FALSE, simRaised |-> FALSE, batchIo |-> "-"]
    /\ session_timestamp = 1
    /\ disk = {}
    /\ mpc = "persist"
    /\ cursor = [p |-> 1, i |-> 0]
    /\ exit_status = -1
    /\ hs = SessionHistory
    /\ ReaderIdle
    /\ CallIdle

\* save_single_product for the record at cursor.p: the file is written, or
\* an OSError is caught and logged.
PersistItem ==
    /\ mpc = "persist"
    /\ cursor.p <= Len(all_products_data)
    /\ LET r == all_products_data[cursor.p]
       IN  \/ /\ data_files' = [data_files EXCEPT ![r.index] = File(r)]
              /\ disk' = WriteFile(disk, item_filename(session_timestamp, r.index),
                                   session_timestamp)
              /\ UNCHANGED hs
           \/ /\ hs.faults < MaxIoFaults
              /\ hs' = [hs EXCEPT !.faults = @ + 1, !.itemLost = @ \cup {r.index}]
              /\ UNCHANGED <<data_files, disk>>
    /\ cursor' = [cursor EXCEPT !.p = @ + 1]
    /\ UNCHANGED <<impl, total_urls, pc, index, page, gate, product_data,
                   all_products_data, successful_count, failed_urls, batch_json,
                   batch_csv, h>>
    /\ UNCHANGED <<session_timestamp, mpc, exit_status>>
    /\ UNCHANGED <<readVars, callVars>>

\* The end of the batch run: if self.all_products_data: save_batch_results(),
\* whose OSError is caught and logged; then the results are returned to main.
PersistBatch ==
    /\ mpc = "persist"
    /\ cursor.p > Len(all_products_data)
    /\ IF all_products_data = <<>>
       THEN UNCHANGED <<batch_json, batch_csv, disk, hs>>
       ELSE \/ /\ batch_json' = File(all_products_data)
               /\ batch_csv' = File(SummaryRows(all_products_data))
               /\ disk' = WriteFile(WriteFile(disk,
                                              batch_json_filename(session_timestamp),
                                              session_timestamp),
                                    batch_csv_filename(session_timestamp),
                                    session_timestamp)
               /\ hs' = [hs EXCEPT !.batchIo = "ok"]
            \/ /\ hs.faults < MaxIoFaults
               /\ batch_json' = File(all_products_data)
               /\ disk' = WriteFile(disk, batch_json_filename(session_timestamp),
                                    session_timestamp)
               /\ hs' = [hs EXCEPT !.faults = @ + 1, !.batchIo = "csv"]
               /\ UNCHANGED batch_csv
            \/ /\ hs.faults < MaxIoFaults
               /\ hs' = [hs EXCEPT !.faults = @ + 1, !.batchIo = "json"]
               /\ UNCHANGED <<batch_json, batch_csv, disk>>
    /\ mpc' = "ask_download"
    /\ cursor' = NoCursor
    /\ UNCHANGED <<impl, total_urls, pc, index, page, gate, product_data,
                   all_products_data, successful_count, failed_urls, data_files, h>>
    /\ UNCHANGED <<session_timestamp, exit_status>>
    /\ UNCHANGED <<readVars, callVars>>

\* main: if results: download_images = input(...); 'y' starts
\* download_all_images.  An EOFError of input() is caught by the except
\* Exception of main; a KeyboardInterrupt is not, it goes on propagating
\* after the finally.
AskDownload ==
    /\ mpc = "ask_download"
    /\ IF all_products_data = <<>>
       THEN /\ mpc' = "close"
            /\ UNCHANGED <<cursor, hs>>
       ELSE \E answer \in {"y", "n", "EOFError", "KeyboardInterrupt"} :
               /\ mpc' = IF answer = "y" THEN "download" ELSE "close"
               /\ cursor' = IF answer = "y"
                            THEN SkipToImages(impl, all_products_data, 1)
                            ELSE cursor
               /\ hs' = [hs EXCEPT !.pending = (answer = "KeyboardInterrupt")]
    /\ UNCHANGED batchVars
    /\ UNCHANGED <<session_timestamp, disk, exit_status>>
    /\ UNCHANGED <<readVars, callVars>>

\* One turn of the loop of download_product_images: requests.get, and for a
\* 200 response the file is written.  A raise of the request or of the write
\* is caught and printed; another status is printed by SimpleBatch1688 and
\* passed over in silence by Batch1688Crawler.
DownloadImage ==
    /\ mpc = "download"
    /\ cursor.p <= Len(all_products_data)
    /\ LET r == all_products_data[cursor.p]
           img == r.images[cursor.i]
           key == <<r.index, cursor.i>>
       IN  \E outcome \in {"saved", "status", "request", "write"} :
              /\ outcome # "saved" => hs.faults < MaxIoFaults
              /\ disk' = IF outcome = "saved"
                          THEN WriteFile(disk,
                                         image_filename(impl, session_timestamp,
                                                        r.index, cursor.i, img),
                                         session_timestamp)
                          ELSE disk
              /\ hs' = [hs EXCEPT
                           !.attempted = @ \cup {key},
                           !.faults = IF outcome = "saved" THEN @ ELSE @ + 1,
                           !.failed = IF outcome = "saved" THEN @ ELSE @ \cup {key},
                           !.logged = IF \/ outcome \in {"request", "write"}
                                         \/ outcome = "status" /\ impl = "SimpleBatch1688"
                                      THEN @ \cup {key} ELSE @]
    /\ cursor' = NextCursor(impl, all_products_data, cursor)
    /\ UNCHANGED batchVars
    /\ UNCHANGED <<session_timestamp, mpc, exit_status>>
    /\ UNCHANGED <<readVars, callVars>>

\* download_all_images returns to main, which prints where the output is.
DownloadDone ==
    /\ mpc = "download"
    /\ cursor.p > Len(all_products_data)
    /\ mpc' = "close"
    /\ cursor' = NoCursor
    /\ UNCHANGED batchVars
    /\ UNCHANGED <<session_timestamp, disk, exit_status, hs>>
    /\ UNCHANGED <<readVars, callVars>>

\* finally: crawler.close(): input(...), driver.quit().  If one of them
\* raises, or an exception was propagating, the process ends with a
\* traceback and a non-zero status; otherwise main returns and the status
\* is 0.
Close ==
    /\ mpc = "close"
    /\ \E raises \in BOOLEAN :
          exit_status' = IF raises \/ hs.pending THEN 1 ELSE 0
    /\ mpc' = "exited"
    /\ UNCHANGED batchVars
    /\ UNCHANGED <<session_timestamp, disk, cursor, hs>>
    /\ UNCHANGED <<readVars, callVars>>

\* The program is started again on the same batch: __init__ takes a new
\* session_timestamp, one second later at least; the files of the new
\* session do not exist yet.
NewSession ==
    /\ mpc = "exited"
    /\ session_timestamp < MaxSessions
    /\ session_timestamp' = session_timestamp + 1
    /\ data_files' = [k \in 1..total_urls |-> NoFile]
    /\ batch_json' = NoFile
    /\ batch_csv' = NoFile
    /\ mpc' = "persist"
    /\ cursor' = [p |-> 1, i |-> 0]
    /\ exit_status' = -1
    /\ hs' = [SessionHistory EXCEPT !.faults = hs.faults]
    /\ UNCHANGED <<impl, total_urls, pc, index, page, gate, product_data,
                   all_products_data, successful_count, failed_urls, h, disk>>
    /\ UNCHANGED <<readVars, callVars>>

SessionNext ==
    \/ PersistItem
    \/ PersistBatch
    \/ AskDownload
    \/ DownloadImage
    \/ DownloadDone
    \/ Close
    \/ NewSession

SessionSpec == SessionInit /\ [][SessionNext]_vars


\* ------------------------------------------------------ reading input.txt
(* read_urls_from_input of SimpleBatch1688 and get_urls_from_file of        *)
(* batch_1688.py.  A line of the file is [pad, body]: pad says that white   *)
(* space surrounds the text, body is the text without it ("" for a blank    *)
(* line).                                                                  *)
(***************************************************************************)
\* Largest number of lines of input.txt that is explored.
MaxLines == 3

LineBodies ==
    {"",
     "# my links",
     "# https://detail.1688.com/offer/1.html",
     "https://detail.1688.com/offer/1.html",
     "https://detail.1688.com/offer/2.html?spm=a",
     "https://www.1688.com/shop/1.html"}

Lines == [pad : BOOLEAN, body : LineBodies]

\* line.strip()
strip(line) == line.body

\* line.startswith('#')
StartsWithHash(text) ==
    text \in {"# my links", "# https://detail.1688.com/offer/1.html"}

\* 'detail.1688.com' in line
HasDetailHost(text) ==
    text \in {"# https://detail.1688.com/offer/1.html",
              "https://detail.1688.com/offer/1.html",
              "https://detail.1688.com/offer/2.html?spm=a"}

\* The example file get_urls_from_file writes when input.txt is missing.
ExampleFile ==
    [exists |-> TRUE,
     lines |-> <<[pad |-> FALSE, body |-> "https://detail.1688.com/offer/1.html"],
                 [pad |-> FALSE, body |-> "# my links"],
                 [pad |-> FALSE, body |-> "# my links"]>>]

ReadInit ==
    /\ impl \in Impls
    /\ total_urls = MaxTargets
    /\ pc = "reading"
    /\ index = 0
    /\ page = BlankPage
    /\ gate = GateIdle
    /\ product_data = NoData
    /\ all_products_data = <<>>
    /\ successful_count = 0
    /\ failed_urls = <<>>
    /\ data_files = [k \in 1..total_urls |-> NoFile]
    /\ batch_json = NoFile
    /\ batch_csv = NoFile
    /\ h = [navCount |-> [k \in 1..total_urls |-> 0],
            navFailed |-> {}, writeFailed |-> {}, delays |-> {},
            needGate |-> FALSE, itemFault |-> "-", itemExc |-> "none",
            abandoned |-> FALSE, simRaised |-> FALSE, batchIo |-> "-"]
    /\ session_timestamp = 1
    /\ disk = {}
    /\ mpc = "reading"
    /\ cursor = NoCursor
    /\ exit_status = -1
    /\ hs = SessionHistory
    /\ input_txt \in {[exists |-> FALSE, lines |-> <<>>]}
                     \cup {[exists |-> TRUE, lines |-> ls] :
                              ls \in UNION {[1..n -> Lines] : n \in 0..MaxLines}}
    /\ rpc = "start"
    /\ line_num = 0
    /\ urls = <<>>
    /\ warned = <<>>
    /\ CallIdle

\* if not os.path.exists(filename): return [] (get_urls_from_file writes the
\* example file first); otherwise urls = [] and the file is opened.
OpenInput ==
    /\ rpc = "start"
    /\ IF input_txt.exists
       THEN /\ rpc' = "lines"
            /\ UNCHANGED input_txt
       ELSE /\ rpc' = "returned"
            /\ input_txt' = IF impl = "Batch1688Crawler" THEN ExampleFile ELSE input_txt
    /\ UNCHANGED <<line_num, urls, warned>>
    /\ UNCHANGED batchVars
    /\ UNCHANGED <<sessVars, callVars>>

\* Mutant of ReadLine: the link test comes before the comment test.
ReadLine_LinkTestFirst ==
    /\ rpc = "lines"
    /\ line_num < Len(input_txt.lines)
    /\ LET line == strip(input_txt.lines[line_num + 1])
       IN  IF line # "" /\ HasDetailHost(line)
           THEN /\ urls' = Append(urls, line)
                /\ UNCHANGED warned
           ELSE IF line # "" /\ ~StartsWithHash(line)
           THEN /\ warned' = Append(warned, line_num + 1)
                /\ UNCHANGED urls
           ELSE UNCHANGED <<urls, warned>>
    /\ line_num' = line_num + 1
    /\ UNCHANGED <<input_txt, rpc>>
    /\ UNCHANGED batchVars
    /\ UNCHANGED <<sessVars, callVars>>

\* One turn of: for line_num, line in enumerate(f, 1)
ReadLine ==
    /\ rpc = "lines"
    /\ line_num < Len(input_txt.lines)
    /\ LET line == strip(input_txt.lines[line_num + 1])
       IN  IF line # "" /\ ~StartsWithHash(line)
           THEN IF HasDetailHost(line)
                THEN /\ urls' = Append(urls, line)
                     /\ UNCHANGED warned
                ELSE /\ warned' = Append(warned, line_num + 1)
                     /\ UNCHANGED urls
           ELSE UNCHANGED <<urls, warned>>
    /\ line_num' = line_num + 1
    /\ UNCHANGED <<input_txt, rpc>>
    /\ UNCHANGED batchVars
    /\ UNCHANGED <<sessVars, callVars>>

\* The file is exhausted: return urls
ReadReturn ==
    /\ rpc = "lines"
    /\ line_num >= Len(input_txt.lines)
    /\ rpc' = "returned"
    /\ UNCHANGED <<input_txt, line_num, urls, warned>>
    /\ UNCHANGED batchVars
    /\ UNCHANGED <<sessVars, callVars>>

ReadNext ==
    \/ OpenInput
    \/ ReadLine
    \/ ReadReturn

ReadSpec == ReadInit /\ [][ReadNext]_vars


\* --------------------------------------------- single calls of extractors
(* The extractors called on their own, on page text written out character  *)
(* by character and on table rows written out cell by cell.  Texts are     *)
(* sequences of one-character strings; four characters of the source are   *)
(* written in ASCII: "Y" is the yen sign U+00A5, "F" the full-width yen    *)
(* sign U+FFE5, "y" the character yuan U+5143 and "q" the character qi     *)
(* U+8D77.                                                                 *)
(***************************************************************************)
MaxTokens == 2
MaxRows == 2

Digits == {"0", "1", "2", "3", "4", "5", "6", "7", "8", "9"}

\* One item of a pattern: a literal character, or a character class under +.
Lit(ch) == [chars |-> {ch}, plus |-> FALSE]
Plus(S) == [chars |-> S, plus |-> TRUE]

\* price_patterns, in the order of the list.
price_patterns ==
    << <<Lit("F"), Plus(Digits \cup {",", "."})>>,
       <<Lit("Y"), Plus(Digits \cup {",", "."})>>,
       <<Plus(Digits), Lit("."), Plus(Digits), Lit("y")>>,
       <<Plus(Digits), Lit("."), Plus(Digits), Lit("-"), Plus(Digits), Lit("."), Plus(Digits)>>,
       <<Plus(Digits), Lit("."), Plus(Digits), Lit("q")>> >>

\* The position after the match of the items k.. of pat that starts at pos
\* (0: no match).  A + item is greedy: it takes the longest run for which
\* the rest of the pattern still matches.
RECURSIVE MatchEnd(_, _, _, _)
MatchEnd(pat, k, text, pos) ==
    IF k > Len(pat) THEN pos
    ELSE LET it == pat[k]
             runs == {n \in 1..(Len(text) - pos + 1) :
                         \A j \in 0..(n - 1) : text[pos + j] \in it.chars}
             lens == IF it.plus THEN runs ELSE runs \cap {1}
             ok == {n \in lens : MatchEnd(pat, k + 1, text, pos + n) # 0}
         IN  IF ok = {} THEN 0
             ELSE MatchEnd(pat, k + 1, text,
                           pos + CHOOSE n \in ok : \A m \in ok : m <= n)

\* re.findall(pattern, text) from position pos on: the non-overlapping
\* matches from left to right.
RECURSIVE FindAllFrom(_, _, _)
FindAllFrom(pat, text, pos) ==
    IF pos > Len(text) THEN <<>>
    ELSE LET e == MatchEnd(pat, 1, text, pos)
         IN  IF e = 0 THEN FindAllFrom(pat, text, pos + 1)
             ELSE <<SubSeq(text, pos, e - 1)>> \o FindAllFrom(pat, text, e)

findall(pat, text) == FindAllFrom(pat, text, 1)

\* for pattern in price_patterns: prices.extend(re.findall(pattern, page_text))
RegexPrices(text) ==
    SeqConcat([k \in 1..Len(price_patterns) |-> findall(price_patterns[k], text)])

\* if text and any(char in text for char in [U+FFE5, U+00A5, U+5143, '.'])
IsPriceText(t) == \E i \in 1..Len(t) : t[i] \in {"F", "Y", "y", "."}

\* The texts of the elements the price selectors find, as they are appended.
SelectorPrices(texts) == SelectSeq(texts, IsPriceText)

\* The page the price extractors see: elements under the price selectors
\* with the given texts, and the given body text.
PricePage(texts, body) ==
    [EmptyContent EXCEPT !.selPrices = SelectorPrices(texts),
                         !.rePrices = RegexPrices(body)]

\* Pieces of body text (Y199.00, Y159.00-Y179.00, 159.00-179.00, 12.50y,
\* 5.00q, F8 and a word) and the texts made of them.
P199 == <<"Y", "1", "9", "9", ".", "0", "0">>
PRange == <<"Y", "1", "5", "9", ".", "0", "0", "-", "Y", "1", "7", "9", ".", "0", "0">>
PPlainRange == <<"1", "5", "9", ".", "0", "0", "-", "1", "7", "9", ".", "0", "0">>
PYuan == <<"1", "2", ".", "5", "0", "y">>
PFrom == <<"5", ".", "0", "0", "q">>
PFull == <<"F", "8">>
PWord == <<"a", "b">>
Tokens == {P199, PRange, PPlainRange, PYuan, PFrom, PFull, PWord}

RECURSIVE JoinTokens(_)
JoinTokens(ts) ==
    IF Len(ts) = 0 THEN <<>>
    ELSE IF Len(ts) = 1 THEN ts[1]
    ELSE ts[1] \o <<" ">> \o JoinTokens(Tail(ts))

BodyTexts == {JoinTokens(ts) : ts \in UNION {[1..n -> Tokens] : n \in 0..MaxTokens}}

\* The texts of the elements under the price selectors.
PriceElementTexts == {<<>>, <<P199>>, <<PRange, P199>>, <<PWord, <<>>, PYuan>>}

\* A table cell is its text with or without surrounding blanks; a row is the
\* list of its <td> cells.
Cell(b) == [pad |-> FALSE, body |-> b]
PaddedCell(b) == [pad |-> TRUE, body |-> b]
Cells == {Cell(""), Cell("color"), PaddedCell("color"), Cell("red"), PaddedCell("blue")}
TableRows ==
    [1..2 -> Cells] \cup {<<Cell("color")>>, <<Cell("size"), Cell("L"), Cell("red")>>}

\* len(cells) >= 2, and key and value are not empty once stripped.
IsSpecRow(row) == Len(row) >= 2 /\ strip(row[1]) # "" /\ strip(row[2]) # ""

\* <<key, value>> of the rows that reach specs[key] = value.
RECURSIVE SpecRows(_)
SpecRows(rows) ==
    IF rows = <<>> THEN <<>>
    ELSE (IF IsSpecRow(Head(rows))
          THEN << <<strip(Head(rows)[1]), strip(Head(rows)[2])>> >> ELSE <<>>)
         \o SpecRows(Tail(rows))

\* The page extract_specifications sees: the rows of all tables in document
\* order; failAt = k > 0: the browser raises while row k is read, so that the
\* bare except ends the scan after k - 1 rows.
SpecPage(rows, failAt) ==
    [EmptyContent EXCEPT
        !.specRows = SpecRows(IF failAt = 0 THEN rows ELSE Take(rows, failAt - 1))]

\* The pages extract_images is called on: the <img> elements of the page,
\* the matches of the page source, the <img> elements of the gallery
\* containers, and the <img> elements that appear while the page is scrolled.
ImagePages ==
    {[EmptyContent EXCEPT !.imgs = imgs, !.srcMatches = ms, !.containerImgs = cs,
                          !.lazyImgs = imgs \o more] :
        imgs \in UNION {[1..n -> {E_main, E_thumb, E_icon, E_lazy}] : n \in 0..2},
        ms \in {<<>>, <<U_main>>, <<U_banner, U_lazy, U_main>>},
        cs \in {<<>>,
                << [source |-> "container_.offer-img", img |-> E_lazy] >>,
                << [source |-> "container_.offer-img", img |-> E_thumb],
                   [source |-> "container_.img-list", img |-> E_banner],
                   [source |-> "container_.img-list", img |-> E_thumb] >>},
        more \in {<<>>, <<E_lazy>>, <<E_600, E_thumb>>}}

Calls ==
    {[fn |-> "extract_price", texts |-> t, body |-> b] :
        t \in PriceElementTexts, b \in BodyTexts}
    \cup {[fn |-> "extract_images", content |-> c] : c \in ImagePages}
    \cup {[fn |-> "extract_specifications", rows |-> rs, failAt |-> k] :
            rs \in UNION {[1..n -> TableRows] : n \in 0..MaxRows}, k \in 0..MaxRows}

\* Everything but the call is at rest.
OutsideCallIdle ==
    /\ total_urls = MaxTargets
    /\ pc = "call"
    /\ index = 0
    /\ page = BlankPage
    /\ gate = GateIdle
    /\ product_data = NoData
    /\ all_products_data = <<>>
    /\ successful_count = 0
    /\ failed_urls = <<>>
    /\ data_files = [k \in 1..total_urls |-> NoFile]
    /\ batch_json = NoFile
    /\ batch_csv = NoFile
    /\ h = [navCount |-> [k \in 1..total_urls |-> 0],
            navFailed |-> {}, writeFailed |-> {}, delays |-> {},
            needGate |-> FALSE, itemFault |-> "-", itemExc |-> "none",
            abandoned |-> FALSE, simRaised |-> FALSE, batchIo |-> "-"]
    /\ session_timestamp = 1
    /\ disk = {}
    /\ mpc = "call"
    /\ cursor = NoCursor
    /\ exit_status = -1
    /\ hs = SessionHistory
    /\ ReaderIdle

CallInit ==
    /\ impl \in Impls
    /\ OutsideCallIdle
    /\ call \in {c \in Calls : c.fn = "extract_specifications" => c.failAt <= Len(c.rows)}
    /\ ret = NotReturned

\* extract_price() on a page whose browser answers.
CallExtractPrice ==
    /\ call.fn = "extract_price"
    /\ ~ret.done
    /\ \E v \in extract_price(PricePage(call.texts, call.body), "none") :
          ret' = Returned(v)
    /\ UNCHANGED call
    /\ UNCHANGED <<batchVars, sessVars, readVars>>

\* extract_specifications()
CallExtractSpecifications ==
    /\ call.fn = "extract_specifications"
    /\ ~ret.done
    /\ ret' = Returned(extract_specifications(SpecPage(call.rows, call.failAt), "none"))
    /\ UNCHANGED call
    /\ UNCHANGED <<batchVars, sessVars, readVars>>

\* extract_images() on a page whose browser answers.
CallExtractImages ==
    /\ call.fn = "extract_images"
    /\ ~ret.done
    /\ ret' = Returned(extract_images(impl, call.content, FALSE))
    /\ UNCHANGED call
    /\ UNCHANGED <<batchVars, sessVars, readVars>>

CallNext ==
    \/ CallExtractPrice
    \/ CallExtractSpecifications
    \/ CallExtractImages

CallSpec == CallInit /\ [][CallNext]_vars


\* ------------------------------------------------- scroll_to_load_images
(* SimpleBatch1688.scroll_to_load_images called on its own.  call holds    *)
(* the position in the function (at), the two heights the browser reports  *)
(* and the local current_position; every execute_script call returns or    *)
(* raises, and a raise is caught by the except of the function.            *)
(***************************************************************************)
MaxViewportHeight == 3
MaxPageHeight == 6

ScrollInit ==
    /\ impl = "SimpleBatch1688"
    /\ OutsideCallIdle
    /\ call = [fn |-> "scroll_to_load_images", at |-> "bottom", viewport_height |-> 0,
               page_height |-> 0, current_position |-> 0, raised |-> FALSE]
    /\ ret = NotReturned

\* window.scrollTo(0, document.body.scrollHeight); time.sleep(1)
ScrollToBottom ==
    /\ call.fn = "scroll_to_load_images"
    /\ call.at = "bottom"
    /\ call' = [call EXCEPT !.at = "top"]
    /\ UNCHANGED ret
    /\ UNCHANGED <<batchVars, sessVars, readVars>>

\* window.scrollTo(0, 0); time.sleep(1)
ScrollToTop ==
    /\ call.fn = "scroll_to_load_images"
    /\ call.at = "top"
    /\ call' = [call EXCEPT !.at = "measure"]
    /\ UNCHANGED ret
    /\ UNCHANGED <<batchVars, sessVars, readVars>>

\* viewport_height = window.innerHeight; page_height =
\* document.body.scrollHeight; current_position = 0
ScrollMeasure ==
    /\ call.fn = "scroll_to_load_images"
    /\ call.at = "measure"
    /\ \E v \in 0..MaxViewportHeight, p \in 0..MaxPageHeight :
          call' = [call EXCEPT !.at = "while", !.viewport_height = v,
                               !.page_height = p, !.current_position = 0]
    /\ UNCHANGED ret
    /\ UNCHANGED <<batchVars, sessVars, readVars>>

\* while current_position < page_height
ScrollWhile ==
    /\ call.fn = "scroll_to_load_images"
    /\ call.at = "while"
    /\ IF call.current_position < call.page_height
       THEN /\ call' = [call EXCEPT !.at = "body"]
            /\ UNCHANGED ret
       ELSE /\ call' = [call EXCEPT !.at = "returned"]
            /\ ret' = Returned(None)
    /\ UNCHANGED <<batchVars, sessVars, readVars>>

\* window.scrollTo(0, current_position); time.sleep(0.5);
\* current_position += viewport_height
ScrollStep ==
    /\ call.fn = "scroll_to_load_images"
    /\ call.at = "body"
    /\ call' = [call EXCEPT !.at = "while",
                            !.current_position = @ + call.viewport_height]
    /\ UNCHANGED ret
    /\ UNCHANGED <<batchVars, sessVars, readVars>>

\* An execute_script call raises: except Exception prints and the function
\* returns.
ScrollRaise ==
    /\ call.fn = "scroll_to_load_images"
    /\ call.at \in {"bottom", "top", "measure", "body"}
    /\ call' = [call EXCEPT !.at = "returned", !.raised = TRUE]
    /\ ret' = Returned(None)
    /\ UNCHANGED <<batchVars, sessVars, readVars>>

ScrollNext ==
    \/ ScrollToBottom
    \/ ScrollToTop
    \/ ScrollMeasure
    \/ ScrollWhile
    \/ ScrollStep
    \/ ScrollRaise

\* The function is the only thread of control: as long as it has not
\* returned it takes its next step.
ScrollSpec == ScrollInit /\ [][ScrollNext]_vars /\ WF_vars(ScrollNext)


\* ------------------------------------------------------------- properties
ResultIndexes == {all_products_data[i].index : i \in 1..Len(all_products_data)}
FailedIndexes == Range(failed_urls)
FailureEntries(k) == Cardinality({i \in 1..Len(failed_urls) : failed_urls[i] = k})
ResultEntries(k) ==
    Cardinality({i \in 1..Len(all_products_data) : all_products_data[i].index = k})
LoopOver == pc \in {"summary", "save_batch", "done"}
\* The pipeline of extract_single_product is at work.
InPipeline ==
    \/ pc \in {"item_nav", "item_gate", "item_sim", "item_extract"}
    \/ pc \in {"gate_scan", "gate_wait"} /\ gate.caller = "item"

C3_NoRetry ==
    \A k \in 1..total_urls :
        /\ h.navCount[k] <= 1
        /\ k \in FailedIndexes => ~(InPipeline /\ index = k)

C3_Witness ==
    /\ failed_urls = <<1>>
    /\ index = 2
    /\ pc = "item_extract"
    /\ h.navCount[1] = 1 /\ h.navCount[2] = 1

\* C4: after a navigation that returned (warm-up or target) the run is at the
\* call of wait_and_handle_captcha: no simulation, extraction or further
\* navigation takes place before the gate has been called.
C4_GateAfterNavigation ==
    h.needGate => pc \in {"warm_gate", "item_gate"}

\* The gate has answered for target 2, after the warm-up gate and the gate of
\* target 1, and the simulation is about to start.
C4_Witness ==
    /\ pc = "item_sim"
    /\ index = 2
    /\ gate.caller = "item"
    /\ gate.result # "none"
    /\ h.navCount[2] = 1
    /\ ~h.needGate

\* C5: once wait_and_handle_captcha has returned after a scan in which every
\* find_elements call answered: if the page carried a keyword the result is
\* True and the operator has pressed Enter, and if it carried none the result
\* is False and input() was never called.
C5_GateBlocksUntilAck ==
    (gate.result # "none" /\ ~gate.raised) =>
        IF gate.indicator
        THEN gate.result = "true" /\ gate.acked
        ELSE gate.result = "false" /\ ~gate.prompted

\* The target on which the pipeline has just finished is in the failure list
\* and not in the results.
CurrentFailed == index \in FailedIndexes /\ index \notin ResultIndexes

\* C6 as stated: whenever some call raised while the record of the current
\* target was being built, the target ends in the failure list and not in the
\* results.
C6_AnyExceptionFails ==
    (pc \in {"save", "delay"} /\ h.itemExc # "none") => CurrentFailed

\* C6: an exception that escapes the extractors makes extract_single_product
\* return None, the target is entered in the failure list and not in the
\* results; an exception the extractors catch leaves a record; the batch run
\* is only ever left at the warm-up navigation, never from the loop; and a
\* finished run has navigated to every target.
C6_EscapedExceptionFails ==
    /\ (pc = "item_ret" /\ h.itemExc = "escaped") => product_data = NoData
    /\ (pc = "item_ret" /\ h.itemExc = "swallowed") => product_data # NoData
    /\ (pc \in {"save", "delay"} /\ h.itemExc = "escaped") => CurrentFailed
    /\ (pc \in {"save", "delay"} /\ h.itemExc = "swallowed") =>
           index \in ResultIndexes /\ index \notin FailedIndexes
    /\ pc = "aborted" => index = 0
    /\ pc = "done" => \A k \in 1..total_urls : h.navCount[k] = 1

\* Of three targets the first gave a record and driver.current_url raised
\* for the second, which is the only entry of the failure list.
C6_Witness ==
    /\ pc = "delay"
    /\ total_urls = 3
    /\ index = 2
    /\ h.itemExc = "escaped"
    /\ h.navFailed = {}
    /\ failed_urls = <<2>>
    /\ ResultIndexes = {1}

\* No selector and no text pattern finds anything on the page.
NothingMatches(c) ==
    /\ c.titleSel = None
    /\ c.pageTitle = ""
    /\ c.selPrices = <<>>
    /\ c.rePrices = <<>>
    /\ c.supplier = None
    /\ c.specRows = <<>>
    /\ c.moq = None
    /\ c.imgs = <<>>
    /\ c.srcMatches = <<>>
    /\ c.containerImgs = <<>>
    /\ c.lazyImgs = <<>>

\* C7: when the browser answered every call and nothing on the page matches,
\* extract_single_product returns a record whose title, price, supplier and
\* MOQ are absent and whose specifications and images are empty.
C7_EmptyPageCompletes ==
    (pc = "item_ret" /\ h.itemFault = "none" /\ NothingMatches(page.content)) =>
        /\ product_data # NoData
        /\ product_data.title = None
        /\ product_data.price = <<>>
        /\ product_data.supplier = None
        /\ product_data.moq = None
        /\ product_data.specifications = <<>>
        /\ product_data.images = <<>>

ResultsAreTheSuccesses ==
    /\ ResultIndexes \cap FailedIndexes = {}
    /\ ResultIndexes \cup FailedIndexes = 1..total_urls
    /\ \A k \in ResultIndexes : ResultEntries(k) = 1

\* C9 as stated: in every finished run in which no write of
\* save_batch_results raised, both batch files exist and hold the results.
C9_AggregateForEveryBatch ==
    (pc = "done" /\ h.batchIo \in {"-", "ok"}) =>
        /\ batch_json = File(all_products_data)
        /\ batch_csv = File(SummaryRows(all_products_data))

\* C9: in a finished run the results are exactly the successful targets; if
\* there is none, neither batch file exists; if there is one and no write
\* raised, the JSON file holds the results and the CSV file one row for each
\* record; and a batch file that exists never holds anything else.
C9_AggregateWhenAnySuccess ==
    pc = "done" =>
        /\ ResultsAreTheSuccesses
        /\ all_products_data = <<>> => ~batch_json.exists /\ ~batch_csv.exists
        /\ (all_products_data # <<>> /\ h.batchIo = "ok") =>
               /\ batch_json = File(all_products_data)
               /\ batch_csv = File(SummaryRows(all_products_data))
               /\ Len(batch_csv.content) = Len(batch_json.content)
        /\ batch_json.exists => batch_json = File(all_products_data)
        /\ batch_csv.exists => batch_csv = File(SummaryRows(all_products_data))

\* Three targets, the second failed: both batch files hold two entries.
C9_Witness ==
    /\ pc = "done"
    /\ total_urls = 3
    /\ failed_urls = <<2>>
    /\ h.batchIo = "ok"
    /\ Len(batch_json.content) = 2
    /\ Len(batch_csv.content) = 2

\* C10: in the record returned by extract_single_product no two entries of
\* the image list carry the same URL.
C10_ImageUrlsDistinct ==
    (pc = "item_ret" /\ product_data # NoData) =>
        \A i, j \in 1..Len(product_data.images) :
            i # j => product_data.images[i].url # product_data.images[j].url

\* The position at which a candidate was discovered.
DiscoveryPos(pre, c) == CHOOSE i \in 1..Len(pre) : pre[i] = c

\* C11: the image list of a record returned by SimpleBatch1688 holds exactly
\* the discovered candidates, by non-increasing priority, and of two
\* candidates of equal priority the one discovered first comes first.
C11_SortedByScoreStable ==
    (pc = "item_ret" /\ product_data # NoData /\ impl = "SimpleBatch1688") =>
        LET imgs == product_data.images
            pre == IF h.itemFault = "query" THEN <<>>
                   ELSE DiscoveredImages(page.content)
        IN  /\ Len(imgs) = Len(pre)
            /\ Range(imgs) = Range(pre)
            /\ \A i, j \in 1..Len(imgs) :
                   i < j =>
                       /\ get_image_priority(imgs[i]) >= get_image_priority(imgs[j])
                       /\ get_image_priority(imgs[i]) = get_image_priority(imgs[j])
                              => DiscoveryPos(pre, imgs[i]) < DiscoveryPos(pre, imgs[j])

\* The product page: the main picture, discovered second, comes first, and
\* the two candidates of priority 0 keep their order of discovery.
C11_Witness ==
    /\ pc = "item_ret"
    /\ impl = "SimpleBatch1688"
    /\ product_data # NoData
    /\ h.itemFault = "none"
    /\ page.content = ProductContent
    /\ DiscoveredImages(page.content)[1].url = U_600
    /\ Len(product_data.images) = 4
    /\ product_data.images[1].url = U_main
    /\ product_data.images[2].url = U_600
    /\ product_data.images[3].url = U_banner
    /\ product_data.images[4].url = U_lazy
    /\ get_image_priority(product_data.images[3]) = get_image_priority(product_data.images[4])

\* C12: no step of a session replaces a file that an earlier session, with
\* another timestamp, has written: per-item files, batch JSON, summary CSV
\* and downloaded images alike.
C12_NoOverwriteAcrossSessions ==
    [][\A f \in disk : f.session < session_timestamp => f \in disk']_vars

\* C13: once the operator has aborted the prompt of wait_and_handle_captcha,
\* the run neither starts the simulation for the target nor goes on with the
\* batch loop: the abort ends the run.
C13_AbortEndsRun ==
    [][gate.aborted => ~(Simulate \/ LoopNext)]_vars

\* C14: a target at whose gate the operator left the prompt without an
\* acknowledgment ends in the failure list, and no record of it is appended
\* to the results.
C14_AbandonedTargetFails ==
    (pc \in {"save", "delay"} /\ h.abandoned) => CurrentFailed

RecordAt(k) ==
    all_products_data[CHOOSE i \in 1..Len(all_products_data) :
                          all_products_data[i].index = k]

\* C16: a target whose per-item write raised has no per-item file, but it is
\* counted as a success and has its record in the results and no failure
\* entry; a finished run has gone through every target; and the batch JSON
\* and the summary CSV, when written, hold its record and its row.
C16_ItemWriteFailureKeepsRecord ==
    /\ successful_count = Len(all_products_data)
    /\ \A k \in h.writeFailed :
           /\ ~data_files[k].exists
           /\ k \in ResultIndexes
           /\ k \notin FailedIndexes
           /\ pc = "done" =>
                  /\ \A j \in 1..total_urls : h.navCount[j] = 1
                  /\ batch_json.exists => RecordAt(k) \in Range(batch_json.content)
                  /\ batch_csv.exists =>
                         SummaryRow(RecordAt(k)) \in Range(batch_csv.content)
                  /\ h.batchIo = "ok" => batch_json.exists /\ batch_csv.exists

\* Three targets, the write of the first per-item file raised: the batch
\* files hold three records and three rows.
C16_Witness ==
    /\ pc = "done"
    /\ total_urls = 3
    /\ h.writeFailed = {1}
    /\ ~data_files[1].exists
    /\ data_files[2].exists
    /\ data_files[3].exists
    /\ successful_count = 3
    /\ h.batchIo = "ok"
    /\ Len(batch_json.content) = 3
    /\ Len(batch_csv.content) = 3

\* C17: a session in which the write of the batch JSON or of the summary CSV
\* raised ends with a non-zero exit status.
C17_BatchWriteFailureExitsNonZero ==
    (mpc = "exited" /\ hs.batchIo \in {"json", "csv"}) => exit_status # 0

\* The images download_all_images requests when nothing fails.
DownloadKeys ==
    UNION {{<<all_products_data[p].index, i>> :
               i \in 1..DownloadCount(impl, all_products_data[p])} :
           p \in 1..Len(all_products_data)}

\* C18: every image whose download failed (request error, status other than
\* 200, write error) has its failure printed; and when download_all_images
\* returns, every image of every record has been requested, whatever failed.
C18_ImageFailureLoggedAndSkipped ==
    /\ hs.failed \subseteq hs.logged
    /\ (mpc = "download" /\ cursor.p > Len(all_products_data)) =>
           hs.attempted = DownloadKeys

\* C19: when execute_script has raised in human_simulate, the pipeline is
\* about to run the extractors for the target or has run them.
C19_SimulatorNeverFails ==
    h.simRaised => (pc = "item_extract" \/ h.itemFault # "-")

\* A line that counts as a target: trimmed it is not blank, does not start
\* with '#' and contains the detail-page host.
IsTargetLine(line) ==
    strip(line) # "" /\ ~StartsWithHash(strip(line)) /\ HasDetailHost(strip(line))

\* A line that is rejected: trimmed it is not blank, not a comment, and does
\* not contain the detail-page host.
IsRejectedLine(line) ==
    strip(line) # "" /\ ~StartsWithHash(strip(line)) /\ ~HasDetailHost(strip(line))

\* The trimmed target lines among the first n lines, in file order.
RECURSIVE TargetLinesUpTo(_, _)
TargetLinesUpTo(ls, n) ==
    IF n = 0 THEN <<>>
    ELSE TargetLinesUpTo(ls, n - 1)
         \o (IF IsTargetLine(ls[n]) THEN <<strip(ls[n])>> ELSE <<>>)

Contains(text, sub) ==
    \E i \in 1..(Len(text) - Len(sub) + 1) : SubSeq(text, i, i + Len(sub) - 1) = sub

\* C21: price extraction on page text that contains "Y199.00" and
\* "Y159.00-Y179.00" returns a list that contains both strings.
C21_BothPricesAmongCandidates ==
    (/\ call.fn = "extract_price"
     /\ ret.done
     /\ Contains(call.body, P199)
     /\ Contains(call.body, PRange))
    => {P199, PRange} \subseteq Range(ret.value)



\* The rows extract_specifications has read when it returns.
ScannedRows == IF call.failAt = 0 THEN call.rows ELSE Take(call.rows, call.failAt - 1)

\* m maps the key of every row of rows numbered in Q to the value of the last
\* row of Q with that key, and nothing else.
LastWriteWins(m, rows, Q) ==
    /\ DOMAIN m = {strip(rows[i][1]) : i \in Q}
    /\ \A i \in Q :
          (\A j \in Q : j > i => strip(rows[j][1]) # strip(rows[i][1]))
          => m[strip(rows[i][1])] = strip(rows[i][2])

\* C22 as stated: every row with at least two cells maps cell 1 to cell 2,
\* the last row of a key giving its value.
C22_EveryRowWithTwoCells ==
    (call.fn = "extract_specifications" /\ ret.done /\ call.failAt = 0)
    => LastWriteWins(ret.value, call.rows,
                     {i \in DOMAIN call.rows : Len(call.rows[i]) >= 2})

\* C22: the map holds, for the rows read that have at least two cells and a
\* non-empty first and second cell, the first cell as key and the second as
\* value, the last row of a key giving its value.
C22_LastNonEmptyRowWins ==
    (call.fn = "extract_specifications" /\ ret.done)
    => LastWriteWins(ret.value, ScannedRows,
                     {i \in DOMAIN ScannedRows :
                         /\ Len(ScannedRows[i]) >= 2
                         /\ ScannedRows[i][1].body # ""
                         /\ ScannedRows[i][2].body # ""})

\* Two rows with the same key were read and the second value was kept.
C22_Witness ==
    /\ call.fn = "extract_specifications"
    /\ ret.done
    /\ call.failAt = 0
    /\ call.rows = << <<Cell("color"), Cell("red")>>,
                      <<PaddedCell("color"), PaddedCell("blue")>> >>
    /\ ret.value = ("color" :> "blue")



\* wait_and_handle_captcha runs for the current target.
InItemGate == pc \in {"gate_scan", "gate_wait"} /\ gate.caller = "item"

\* C23: for each target the pipeline goes from Navigating to GateCheck, from
\* GateCheck to Simulating, from Simulating to Extracting and from Extracting
\* to its end, which is Complete (a record) or Failed (no record); only a
\* navigation error leads to Failed earlier, straight from Navigating.
C23_StagesInOrder ==
    [][/\ pc = "item_nav" =>
            IF index \in h'.navFailed
            THEN pc' = "item_ret" /\ product_data' = NoData
            ELSE pc' = "item_gate"
       /\ pc = "item_gate" => (pc' = "gate_scan" /\ gate'.caller = "item")
       /\ InItemGate => pc' \in {"gate_scan", "gate_wait", "item_sim"}
       /\ pc = "item_sim" => pc' = "item_extract"
       /\ pc = "item_extract" =>
            (pc' = "item_ret" /\ (product_data' = NoData <=> h'.itemExc = "escaped"))
       /\ (pc' = "item_ret" /\ pc # "item_ret") => pc \in {"item_nav", "item_extract"}]_vars



\* C24: the record of a target is never built from a page that still shows a
\* block indicator: the pipeline stays in the gate until a scan finds none.
C24_NoExtractionWhileBlocked ==
    (pc \in {"item_extract", "item_ret"} /\ (pc = "item_extract" \/ h.itemFault # "-"))
    => page.kw = {}



\* C25: no image candidate of a record of SimpleBatch1688 has a URL with a
\* keyword of an exclusion list, or the declared size of an element that is
\* narrower or lower than 50 pixels.
C25_NoExcludedImage ==
    (impl = "SimpleBatch1688" /\ pc \in {"item_ret", "save", "delay"} /\ product_data # NoData)
    => \A i \in 1..Len(product_data.images) :
          LET c == product_data.images[i]
          IN  /\ c.url.excl = "none"
              /\ ~(c.width > 0 /\ c.height > 0 /\ (c.width < 50 \/ c.height < 50))



\* C26: provided every browser call returns, scroll_to_load_images returns
\* whatever page height and viewport height the browser reports.
C26_ScrollLoopTerminates == <>(call.fn = "scroll_to_load_images" /\ ret.done)



\* C27: at every point of a batch run no target is both in the results and in
\* the failure list, and none is twice in either of them.
C27_AccountedOnce ==
    /\ ResultIndexes \cap FailedIndexes = {}
    /\ \A k \in 1..total_urls : ResultEntries(k) <= 1 /\ FailureEntries(k) <= 1



\* C28: when the warm-up navigation raises, the exception leaves the batch run
\* at once: nothing is entered in the failure list, no file is written, and
\* the run takes no further step (no target is navigated, no summary made).
C28_WarmupErrorAbortsRun ==
    [][/\ (pc = "start" /\ pc' # "warm_gate") =>
            /\ pc' = "aborted"
            /\ UNCHANGED <<index, failed_urls, all_products_data, data_files,
                           batch_json, batch_csv, disk, h>>
       /\ pc # "aborted"]_vars

\* The warm-up navigation raised.
C28_Witness ==
    /\ pc = "aborted"
    /\ page = BlankPage
    /\ index = 0
    /\ failed_urls = <<>>
    /\ disk = {}
    /\ batch_json = NoFile



\* C29: the records of the results are in target order, the index of a record
\* is the position of its target in the batch, the per-item file of a record
\* is the one named with that index, and the files of two targets of a run
\* have different names.
C29_IndexIsTargetPosition ==
    /\ \A i \in 1..Len(all_products_data) :
          /\ all_products_data[i].index \in 1..index
          /\ all_products_data[i].url = all_products_data[i].index
    /\ \A i, j \in 1..Len(all_products_data) :
          i < j => all_products_data[i].index < all_products_data[j].index
    /\ \A k \in 1..total_urls :
          data_files[k].exists =>
              /\ k \in ResultIndexes
              /\ data_files[k].content.index = k
              /\ [name |-> item_filename(session_timestamp, k),
                  session |-> session_timestamp] \in disk
    /\ \A f \in disk :
          f.name.dir = "data" =>
              \E k \in ResultIndexes :
                  f.name = item_filename(session_timestamp, k) /\ data_files[k].exists
    /\ \A k1, k2 \in ResultIndexes :
          k1 # k2 => item_filename(session_timestamp, k1)
                         # item_filename(session_timestamp, k2)

\* Target 2 failed; targets 1 and 3 have their records and their files.
C29_Witness ==
    /\ pc = "done"
    /\ total_urls = 3
    /\ ResultIndexes = {1, 3}
    /\ all_products_data[2].index = 3
    /\ data_files[3].exists
    /\ data_files[3].content.index = 3
    /\ ~data_files[2].exists



\* The elements and matches of page content c from which each strategy takes
\* the URL x, by their position in what the strategy looks at.
TagHits(c, x) ==
    {i \in DOMAIN c.imgs :
        TagUrl(c.imgs[i]).id = x /\ is_product_image(TagUrl(c.imgs[i]), c.imgs[i])}
RegexHits(c, x) ==
    {i \in DOMAIN c.srcMatches :
        c.srcMatches[i].id = x /\ is_valid_product_image_url(c.srcMatches[i])}
ContainerHits(c, x) ==
    {i \in DOMAIN c.containerImgs : get_best_image_url(c.containerImgs[i].img).id = x}
LazyHits(c, x) ==
    {i \in DOMAIN c.lazyImgs :
        /\ get_best_image_url(c.lazyImgs[i]).id = x
        /\ is_product_image(get_best_image_url(c.lazyImgs[i]), c.lazyImgs[i])}

Least(S) == CHOOSE m \in S : \A n \in S : m <= n

\* The candidate of the earliest strategy, and of its first element, that
\* takes the URL x from page content c.
EarliestCandidate(c, x) ==
    IF TagHits(c, x) # {}
    THEN LET e == c.imgs[Least(TagHits(c, x))]
         IN  MkCandidate(TagUrl(e), e.width, e.height, "img_tag")
    ELSE IF RegexHits(c, x) # {}
    THEN MkCandidate(c.srcMatches[Least(RegexHits(c, x))], 0, 0, "regex_extract")
    ELSE IF ContainerHits(c, x) # {}
    THEN LET f == c.containerImgs[Least(ContainerHits(c, x))]
         IN  MkCandidate(get_best_image_url(f.img), f.img.width, f.img.height, f.source)
    ELSE LET e == c.lazyImgs[Least(LazyHits(c, x))]
         IN  MkCandidate(get_best_image_url(e), e.width, e.height, "lazy_load")

\* C30: the output of SimpleBatch1688.extract_images holds one candidate per
\* URL, and it is the candidate of the earliest strategy (DOM scan, page
\* source, gallery containers, rescan after scrolling) that found the URL.
C30_EarliestStrategyKept ==
    (call.fn = "extract_images" /\ ret.done /\ impl = "SimpleBatch1688")
    => /\ \A i, j \in DOMAIN ret.value :
             i # j => ret.value[i].url.id # ret.value[j].url.id
       /\ \A i \in DOMAIN ret.value :
             ret.value[i] = EarliestCandidate(call.content, ret.value[i].url.id)

\* The main picture was found by the DOM scan, in the page source, in a
\* container and by the rescan, and is kept as found by the DOM scan; the
\* lazily loaded picture was found in the page source and by the rescan and
\* is kept as found in the page source.
C30_Witness ==
    /\ call.fn = "extract_images"
    /\ ret.done
    /\ impl = "SimpleBatch1688"
    /\ TagHits(call.content, "main") # {}
    /\ RegexHits(call.content, "main") # {}
    /\ ContainerHits(call.content, "main") # {}
    /\ LazyHits(call.content, "main") # {}
    /\ \E i \in DOMAIN ret.value :
          ret.value[i].url.id = "main" /\ ret.value[i].source = "img_tag"
    /\ LazyHits(call.content, "lazy") # {}
    /\ \E i \in DOMAIN ret.value :
          ret.value[i].url.id = "lazy" /\ ret.value[i].source = "regex_extract"


=============================================================================
